---------------------------- MODULE Spec2Model ----------------------------
(***************************************************************************)
(* gohelix participant: the session lifecycle (Connect / Disconnect), the  *)
(* message watcher, the dispatch loop with its seen cache, and the         *)
(* per-message pipeline processMessage -> handleStateTransition ->         *)
(* postHandleMessage over the coordinator's znodes.                        *)
(*                                                                         *)
(* Source: src/participant.go (Participant, lines 1-515; Connection,       *)
(* lines 517-956), src/unnamed/part_010 (KeyBuilder), src/manager.go.      *)
(***************************************************************************)
EXTENDS Integers, Sequences, FiniteSets, TLC

(***************************************************************************)
(* Bounds of the model.                                                    *)
(***************************************************************************)
\* how many messages the controller writes under INSTANCES/<self>/MESSAGES
MaxSent == 2
\* the same, in the specification that counts time (the seen cache)
MaxSentDispatch == 2
\* the same, in the specification of Connect and Disconnect
MaxSentLifecycle == 2

(***************************************************************************)
(* Program constants.                                                      *)
(***************************************************************************)
\* participant.go:453  time.Since(v).Seconds() > 10
EvictAfterSeconds == 10
\* participant.go:451  time.After(5 * time.Second)
HousekeepingPeriodSeconds == 5

\* ParticipantState (participant.go:18-23)
PSConnected    == "CONNECTED"
PSStarted      == "STARTED"
PSStopped      == "STOPPED"
PSDisconnected == "DISCONNECTED"

\* the participant id (manager.go:79, host_port) and the coordinator sessions
ParticipantID == "h_1000"
SessionID     == "abcd"
OldSessionID  == "ffff"
Wildcard      == "*"

(***************************************************************************)
(* Strings: strings.ToUpper / strings.EqualFold over the alphabet of the   *)
(* model (every lower-case spelling used below has its upper-case form).   *)
(***************************************************************************)
ToUpper(s) ==
    CASE s = "new"              -> "NEW"
      [] s = "dropped"          -> "DROPPED"
      [] s = "controller"       -> "CONTROLLER"
      [] s = "state_transition" -> "STATE_TRANSITION"
      [] s = "no_op"            -> "NO_OP"
      [] s = "h_1000"           -> "H_1000"
      [] OTHER                  -> s

EqualFold(a, b) == ToUpper(a) = ToUpper(b)

(***************************************************************************)
(* Messages the controller may write (spec section 3, Message record).     *)
(***************************************************************************)
MsgTypes    == {"STATE_TRANSITION", "NO_OP", "USER_DEFINE_MSG"}
TgtSessions == {SessionID, OldSessionID, Wildcard}
MsgStates   == {"NEW", "new", "READ"}
TgtNames    == {ParticipantID, "controller"}
ToStates    == {"SLAVE", "DROPPED", "dropped"}
Partitions  == {"R_1", "R_2"}
Resources   == {"R"}
ModelDefs   == {"MasterSlave", "Unknown"}

DefaultMessage ==
    [MSG_TYPE        |-> "STATE_TRANSITION",
     TGT_SESSION_ID  |-> SessionID,
     MSG_STATE       |-> "NEW",
     TGT_NAME        |-> ParticipantID,
     FROM_STATE      |-> "OFFLINE",
     TO_STATE        |-> "SLAVE",
     PARTITION_NAME  |-> "R_1",
     RESOURCE_NAME   |-> "R",
     STATE_MODEL_DEF |-> "MasterSlave"]

\* the plain state-transition message, for every target state and for every
\* partition
PlainMessages ==
    {[DefaultMessage EXCEPT !.TO_STATE = t] : t \in ToStates}
    \cup {[DefaultMessage EXCEPT !.PARTITION_NAME = p] : p \in Partitions}

\* the plain message with one of the fields changed that select the branch
\* processMessage takes (lines 293, 303, 314, 327)
VariantMessages ==
    {[DefaultMessage EXCEPT !.MSG_TYPE = v] : v \in MsgTypes}
    \cup {[DefaultMessage EXCEPT !.TGT_SESSION_ID = v] : v \in TgtSessions}
    \cup {[DefaultMessage EXCEPT !.MSG_STATE = v] : v \in MsgStates}
    \cup {[DefaultMessage EXCEPT !.STATE_MODEL_DEF = v] : v \in ModelDefs}
    \cup {[DefaultMessage EXCEPT !.TGT_NAME = v] : v \in TgtNames}

Messages == PlainMessages \cup VariantMessages

\* the messages of the specifications that count time: one the pipeline
\* deletes, one it leaves in place
DispatchMessages ==
    {[DefaultMessage EXCEPT !.MSG_STATE = v] : v \in {"NEW", "READ"}}

(***************************************************************************)
(* The state models registered with the participant before Connect         *)
(* (README.md:46-56, helix/helix.go:343-352): model name -> the            *)
(* FROM_STATE -> TO_STATE pairs that have a handler.                       *)
(***************************************************************************)
StateModels ==
    [n \in {"MasterSlave"} |->
        {<<"OFFLINE", "SLAVE">>, <<"SLAVE", "MASTER">>, <<"MASTER", "SLAVE">>,
         <<"SLAVE", "OFFLINE">>, <<"OFFLINE", "DROPPED">>}]

(***************************************************************************)
(* State.                                                                  *)
(***************************************************************************)
VARIABLES
    state,                \* p.state (participant.go:59)
    connected,            \* conn.isConnected: the coordinator session is open
    liveInstance,         \* LIVEINSTANCES/<self> exists
    mainPc,               \* the caller of Connect / Disconnect
    loopPc,               \* the dispatch goroutine (participant.go:463-487)
    watchPc,              \* the goroutine of watchMessages (participant.go:423-437)
    snapshot,             \* the children list the watcher holds for its send
    eventFired,           \* the watcher's one-shot child watch has fired
    pending,              \* the rest of the list the loop iterates
    messageProcessedTime, \* the seen cache: id -> seconds since it was recorded
    msgs,                 \* INSTANCES/<self>/MESSAGES/<id> -> message record
    sessionDirs,          \* INSTANCES/<self>/CURRENTSTATES/<session> -> znode
    currentStates,        \* .../CURRENTSTATES/<session>/<resource> -> znode
    sent,                 \* messages the controller has written so far
    quota,                \* messages the controller will still write
    crashed,              \* a panic or a fatal runtime error ended the process
    run,                  \* history: the last call of processMessage
    lastInvoked,          \* history: id -> seconds since processMessage(id) began
    writes,               \* history: partition -> CURRENT_STATE values written
    handled,              \* history: partition -> messages handled to the end
    cluster,              \* the znodes of the cluster that Connect reads and makes
    liveNode,             \* LIVEINSTANCES/<self>: no node, or its record
    call,                 \* the call of Connect: its inputs, locals and result
    spectator,            \* the spectator: its listeners, goroutines and position
    read                  \* a read of the coordinator wrapper: its retry loop

vars == <<state, connected, liveInstance, mainPc, loopPc, watchPc, snapshot,
          eventFired, pending, messageProcessedTime, msgs, sessionDirs,
          currentStates, sent, quota, crashed, run, lastInvoked, writes,
          handled, cluster, liveNode, call, spectator, read>>

zkVars   == <<msgs, sessionDirs, currentStates>>
histVars == <<run, lastInvoked, writes, handled>>
joinVars == <<cluster, liveNode, call>>


(***************************************************************************)
(* Znodes and records.  A znode is its data (no bytes, or one record) and  *)
(* the version its stat reports; Create makes version 0 and every Set      *)
(* adds one.                                                               *)
(***************************************************************************)
EmptyNode == [data |-> <<>>, version |-> 0]

NoRun == [id |-> 0, msg |-> <<>>, events |-> <<>>, outcome |-> "none"]

\* Connection.CreateEmptyNode via ensurePath (participant.go:937-950): the
\* session directory of a current-state path, made when it is missing
ensurePath(dirs, session) ==
    IF session \in DOMAIN dirs THEN dirs ELSE dirs @@ (session :> EmptyNode)

\* NewRecordFromBytes: the JSON codec of a record; no bytes are no JSON object
NewRecordFromBytes(data) ==
    IF data = <<>> THEN [ok |-> FALSE, record |-> <<>>]
                   ELSE [ok |-> TRUE, record |-> data]

\* Record.SetMapField(key, property, value)
SetMapField(record, key, property, value) ==
    LET mf    == record[1].mapFields
        inner == IF key \in DOMAIN mf THEN mf[key] ELSE <<>>
        upd   == [q \in (DOMAIN inner) \cup {property} |->
                     IF q = property THEN value ELSE inner[q]]
    IN  <<[record[1] EXCEPT !.mapFields =
              [k \in (DOMAIN mf) \cup {key} |-> IF k = key THEN upd ELSE mf[k]]]>>

\* Record.RemoveMapField(key)
RemoveMapField(record, key) ==
    LET mf == record[1].mapFields
    IN  <<[record[1] EXCEPT !.mapFields = [k \in (DOMAIN mf) \ {key} |-> mf[k]]]>>

\* Connection.Set (participant.go:690-693): a versioned write with the stat
\* of the connection's last read; a stale version is refused
Set(node, data, statVersion) ==
    IF statVersion = node.version
    THEN [ok |-> TRUE, node |-> [data |-> data, version |-> node.version + 1]]
    ELSE [ok |-> FALSE, node |-> node]

\* an update that writes back the record as it was read
UpdateMapFieldUnset(node, key, property, value, statVersion) ==
    LET dec == NewRecordFromBytes(node.data)
    IN  IF ~dec.ok THEN [ok |-> FALSE, node |-> node]
        ELSE Set(node, dec.record, statVersion)

\* Connection.UpdateMapField (participant.go:743-767) on an existing znode:
\* Get, decode, SetMapField, encode, Set with the stat version at hand
UpdateMapField(node, key, property, value, statVersion) ==
    LET dec == NewRecordFromBytes(node.data)
    IN  IF ~dec.ok THEN [ok |-> FALSE, node |-> node]
        ELSE Set(node, SetMapField(dec.record, key, property, value), statVersion)

\* Connection.RemoveMapFieldKey (participant.go:850-871) on an existing znode
RemoveMapFieldKey(node, key, statVersion) ==
    LET dec == NewRecordFromBytes(node.data)
    IN  IF ~dec.ok THEN [ok |-> FALSE, node |-> node]
        ELSE Set(node, RemoveMapField(dec.record, key), statVersion)

\* the current-state record processMessage builds (participant.go:328-347)
NewCurrentState(message) ==
    <<[id               |-> message.RESOURCE_NAME,
       STATE_MODEL_DEF  |-> message.STATE_MODEL_DEF,
       SESSION_ID       |-> message.TGT_SESSION_ID,
       mapFields        |-> <<>>]>>

\* Connection.SetRecordForPath (participant.go:907-933) on a missing path:
\* ensurePath creates the empty znode, Get reads its stat, Set writes the record
SetRecordForPath(record) == Set(EmptyNode, record, EmptyNode.version).node

\* KeyBuilder.currentStateForResource / currentStatesForSession (part_010:92-98)
currentStateForResource(sessionID, resourceID) == <<sessionID, resourceID>>

currentStatesForSession(sessionID) == sessionID

\* the key of a partition in the histories
PartitionKeys == Resources \X Partitions

\* the seconds a cache entry or a history entry can count up to
MaxAge == EvictAfterSeconds + HousekeepingPeriodSeconds

(***************************************************************************)
(* What Connect reads and makes (participant.go:91-131, 187-250, 490-515). *)
(***************************************************************************)
\* how many pre-connect callbacks are registered before Connect
MaxCallbacks == 1

\* createLiveInstance, line 500: retry := 15
LiveInstanceRetries == 15

Host == "h"
Port == "1000"

\* INSTANCES/<self> and the five paths under it (participant.go:224-241)
InstancePaths ==
    {"INSTANCE", "CURRENTSTATES", "ERRORS", "HEALTHREPORT", "MESSAGES",
     "STATUSUPDATES"}

\* strings.ToLower as autoJoinAllowed uses it (line 201)
ToLower(s) == CASE s = "TRUE" -> "true"
                [] s = "True" -> "true"
                [] OTHER      -> s

\* the simple field allowParticipantAutoJoin of the cluster config: missing,
\* or its value
AutoJoinValues == {<<>>, <<"true">>, <<"TRUE">>, <<"false">>}

\* the record ensureParticipantConfig writes (lines 216-219)
NewParticipantConfig ==
    <<[id            |-> ParticipantID,
       HELIX_HOST    |-> Host,
       HELIX_PORT    |-> Port,
       HELIX_ENABLED |-> "true"]>>

\* a participant config an administrator wrote before, the instance disabled
DisabledParticipantConfig ==
    <<[NewParticipantConfig[1] EXCEPT !.HELIX_ENABLED = "false"]>>

\* the seven categories of listeners of a spectator (unnamed/part_004:36-42)
Categories ==
    {"externalView", "liveInstance", "idealState", "instanceConfig",
     "controllerMessage", "currentState", "message"}

\* the categories whose watcher keeps a tracking map and starts a data watcher
\* for every child (watchExternalView, watchIdealState, watchInstanceConfig)
Tracked == {"externalView", "idealState", "instanceConfig"}

\* the two tracking maps that are read and written without the lock
\* (externalViewResourceMap, idealStateResourceMap)
Unlocked == {"externalView", "idealState"}

\* the categories whose root lies in the cluster and not under an instance
ClusterCategories == Categories \ {"currentState", "message"}

\* the children that may appear under the root of a category
Names == {"R1", "R2"}

\* the changes made in the coordinator while a spectator watches
MaxChanges == 2

\* the listeners of one category for one instance
MaxListeners == 2

\* a spectator before Connect, with the listeners added to it; buffered: the
\* channel of instance messages has room for a send.  The constructor
\* (manager.go:46-70) sets no state, and the zero value of spectatorState is
\* spectatorConnected (part_004:13-16)
NewSpectator(listeners, buffered) ==
    [pc        |-> "new",
     state     |-> "CONNECTED",
     listeners |-> listeners,
     count     |-> [c \in Categories |-> IF c \in listeners THEN 1 ELSE 0],
     buffered  |-> buffered,
     lock      |-> "free",
     watchers  |-> [c \in Categories |-> "none"],
     watched   |-> "none",
     data      |-> [w \in Tracked \X Names |-> "none"],
     fired     |-> {},
     dataFired |-> {},
     tracking  |-> [c \in Tracked |-> <<>>],
     dispatch  |-> [pc |-> "none", kind |-> "none", torn |-> FALSE],
     spawned   |-> {},
     invoked   |-> {},
     blocked   |-> {},
     shown     |-> [c \in Categories |-> {}],
     pushed    |-> [c \in Categories |-> 0],
     changes   |-> 0,
     poller    |-> "none",
     crashed   |-> FALSE]

\* the reads of the coordinator wrapper (participant.go:628-731)
Reads == {"Exists", "Get", "GetW", "Children", "ChildrenW"}

\* the attempts of one read that are followed
MaxAttempts == 3

\* the attempts of one read that the transport fails
MaxFaults == 2

\* no read in progress
NoRead == [op |-> "none", pc |-> "idle", exists |-> FALSE, attempts |-> 0,
           faults |-> 0, last |-> "none", result |-> "none"]

\* NewLiveInstanceNode(participantID, sessionID) (line 492)
NewLiveInstanceNode(participantID, sessionID) ==
    <<[id |-> participantID, session |-> sessionID]>>

\* a cluster that is set up, with the participant joined
JoinedCluster ==
    [setup    |-> TRUE,
     autoJoin |-> <<>>,
     config   |-> NewParticipantConfig,
     paths    |-> InstancePaths,
     trees    |-> [c \in ClusterCategories |-> <<>>]]

\* a call of Connect that has not begun: the participant's state models and
\* callbacks, the locals of createLiveInstance, the value returned
NewCall(registered, callbacks) ==
    [registered |-> registered,
     callbacks  |-> callbacks,
     ran        |-> 0,
     retry      |-> LiveInstanceRetries,
     attempts   |-> 0,
     waited     |-> 0,
     err        |-> "none",
     result     |-> "none"]

(***************************************************************************)
(* Init: the participant as NewParticipant builds it (manager.go:74-86),   *)
(* state models registered, nothing connected; the cluster is set up and   *)
(* the participant's instance paths exist and are empty.                   *)
(***************************************************************************)
InitWith(n) ==
    /\ read = NoRead
    /\ state = PSConnected
    /\ connected = FALSE
    /\ liveInstance = FALSE
    /\ mainPc = "new"
    /\ loopPc = "none"
    /\ watchPc = "none"
    /\ snapshot = {}
    /\ eventFired = FALSE
    /\ pending = <<>>
    /\ messageProcessedTime = <<>>
    /\ msgs = <<>>
    /\ sessionDirs = <<>>
    /\ currentStates = <<>>
    /\ sent = 0
    /\ quota = n
    /\ crashed = FALSE
    /\ run = NoRun
    /\ lastInvoked = <<>>
    /\ writes = [k \in PartitionKeys |-> <<>>]
    /\ handled = [k \in PartitionKeys |-> <<>>]
    /\ cluster = JoinedCluster
    /\ liveNode = <<>>
    /\ call = NewCall(TRUE, 0)
    /\ spectator = NewSpectator({}, FALSE)

Init == InitWith(MaxSent)

InitDispatch == InitWith(MaxSentDispatch)

InitLifecycle == InitWith(MaxSentLifecycle)


(***************************************************************************)
(* processMessage (participant.go:284-364) and what it calls.  Each        *)
(* operator yields the znodes after the call, the events of the call in    *)
(* order, and how it ended: "returned", "hung" (a read of a missing path   *)
(* is retried for ever, participant.go:656-670) or "panicked" (must).      *)
(*                                                                         *)
(* raced: the watcher goroutine's ChildrenW (participant.go:425, 720-727)  *)
(* stored the stat of the MESSAGES znode in conn.stat between the Get and  *)
(* the Set of UpdateMapField; conn.stat is shared and unsynchronised.      *)
(***************************************************************************)
MessagesNode == EmptyNode

StatVersion(node, raced) == IF raced THEN MessagesNode.version ELSE node.version

\* postHandleMessage, line 397: the message is not for the current session
SessionChanged(message) == message.TGT_SESSION_ID # SessionID

\* Participant.postHandleMessage (participant.go:389-416)
postHandleMessage(message, dirs, cs, raced) ==
    LET sessionID     == SessionID
        toState       == message.TO_STATE
        partitionName == message.PARTITION_NAME
        dropped       == ToUpper(toState) = "DROPPED"
        dirPath       == currentStatesForSession(sessionID)
        path          == currentStateForResource(sessionID, message.RESOURCE_NAME)
        \* the result of RemoveMapFieldKey is dropped by the caller (line 407)
        dirs1         == IF dropped /\ dirPath \in DOMAIN dirs
                         THEN [dirs EXCEPT ![dirPath] =
                                 RemoveMapFieldKey(dirs[dirPath], partitionName,
                                                   dirs[dirPath].version).node]
                         ELSE dirs
    IN  IF SessionChanged(message)
        THEN [dirs |-> dirs, cs |-> cs, events |-> <<"postHandle">>,
              outcome |-> "returned", wrote |-> <<>>]
        ELSE IF dropped /\ dirPath \notin DOMAIN dirs
        THEN [dirs |-> dirs, cs |-> cs, events |-> <<"postHandle">>,
              outcome |-> "hung", wrote |-> <<>>]
        ELSE IF path \notin DOMAIN cs
        THEN [dirs |-> dirs1, cs |-> cs, events |-> <<"postHandle">>,
              outcome |-> "hung", wrote |-> <<>>]
        ELSE LET upd == UpdateMapField(cs[path], partitionName, "CURRENT_STATE",
                                       toState, StatVersion(cs[path], raced))
             IN  IF upd.ok
                 THEN [dirs |-> dirs1, cs |-> [cs EXCEPT ![path] = upd.node],
                       events |-> <<"postHandle", "setCurrentState">>,
                       outcome |-> "returned", wrote |-> <<toState>>]
                 ELSE [dirs |-> dirs1, cs |-> cs, events |-> <<"postHandle">>,
                       outcome |-> "panicked", wrote |-> <<>>]

\* Participant.preHandleMessage (participant.go:385-387)
preHandleMessage(message) == <<"preHandle">>

\* the state-model handler of the message's transition: handleStateTransition
\* does not call one (participant.go:379)
invokeStateModel(message) == <<>>

\* Participant.handleStateTransition (participant.go:366-383)
handleStateTransition(message, dirs, cs, raced) ==
    LET post == postHandleMessage(message, dirs, cs, raced)
    IN  [post EXCEPT !.events =
            preHandleMessage(message) \o invokeStateModel(message) \o post.events]

\* the znode is left behind
DeleteTreeKeeps(nodes, id) == nodes

\* Connection.DeleteTree of a message znode (participant.go:824-848)
DeleteTree(nodes, id) == [k \in (DOMAIN nodes) \ {id} |-> nodes[k]]

\* does processMessage create the current-state record (participant.go:326-358)
CreatesCurrentState(message, cs) ==
    /\ ~EqualFold(message.TGT_NAME, "CONTROLLER")
    /\ EqualFold(message.MSG_TYPE, "STATE_TRANSITION")
    /\ currentStateForResource(message.TGT_SESSION_ID, message.RESOURCE_NAME)
          \notin DOMAIN cs

\* the type compared with a misspelt name
IsNoOpMisspelt(msgType) == msgType = "NOOP"

\* processMessage, line 293
IsNoOp(msgType) == msgType = "NO_OP"

\* the comparison of line 303 inverted
SessionMismatchInverted(sessionID) == sessionID = SessionID /\ sessionID # Wildcard

\* processMessage, line 303: the message comes from an expired session
SessionMismatch(sessionID) == sessionID # SessionID /\ sessionID # Wildcard

\* the state compared letter for letter
IsNewExact(msgState) == msgState = "NEW"

\* processMessage, line 314
IsNew(msgState) == EqualFold(msgState, "NEW")

\* Participant.processMessage on an existing message znode
processMessage(id, raced) ==
    LET message   == msgs[id]
        sessionID == message.TGT_SESSION_ID
        same      == [msgs |-> msgs, dirs |-> sessionDirs, cs |-> currentStates,
                      events |-> <<>>, outcome |-> "returned", wrote |-> <<>>]
    IN  IF IsNoOp(message.MSG_TYPE)
        THEN [same EXCEPT !.msgs = DeleteTree(msgs, id), !.events = <<"delete">>]
        ELSE IF SessionMismatch(sessionID)
        THEN [same EXCEPT !.msgs = DeleteTree(msgs, id), !.events = <<"delete">>]
        ELSE IF ~IsNew(message.MSG_STATE)
        THEN same
        ELSE
          LET create == CreatesCurrentState(message, currentStates)
              path   == currentStateForResource(sessionID, message.RESOURCE_NAME)
              dirs1  == IF create THEN ensurePath(sessionDirs, sessionID)
                                  ELSE sessionDirs
              cs1    == IF create
                        THEN currentStates @@
                               (path :> SetRecordForPath(NewCurrentState(message)))
                        ELSE currentStates
              made   == IF create THEN <<"createCurrentState">> ELSE <<>>
              h      == handleStateTransition(message, dirs1, cs1, raced)
          IN  IF h.outcome = "returned"
              THEN [msgs |-> DeleteTree(msgs, id), dirs |-> h.dirs, cs |-> h.cs,
                    events |-> made \o h.events \o <<"delete">>,
                    outcome |-> "returned", wrote |-> h.wrote]
              ELSE [msgs |-> msgs, dirs |-> h.dirs, cs |-> h.cs,
                    events |-> made \o h.events,
                    outcome |-> h.outcome, wrote |-> h.wrote]


(***************************************************************************)
(* The coordinator side: the controller and the clock.                     *)
(***************************************************************************)
\* a child of MESSAGES was created or deleted: an armed child watch fires
WatchArmed == watchPc \in {"send", "await"}

\* the controller writes one of the messages of menu for the live participant
Send(menu) ==
    /\ liveInstance
    /\ ~crashed
    /\ quota > 0
    /\ \E m \in menu :
          msgs' = msgs @@ ((sent + 1) :> m)
    /\ sent' = sent + 1
    /\ quota' = quota - 1
    /\ eventFired' = (eventFired \/ WatchArmed)
    /\ UNCHANGED <<state, connected, liveInstance, joinVars, mainPc, loopPc, watchPc,
                   snapshot, pending, messageProcessedTime, sessionDirs,
                   currentStates, crashed, histVars>>
    /\ UNCHANGED <<spectator, read>>

Older(age) == IF age + HousekeepingPeriodSeconds > MaxAge
              THEN MaxAge ELSE age + HousekeepingPeriodSeconds

\* time passes: one housekeeping period (counted while the seen cache holds an
\* entry that can still age and the dispatch goroutine can still read it)
Tick ==
    /\ ~crashed
    /\ loopPc \notin {"hung", "exited"}
    /\ \E id \in DOMAIN messageProcessedTime : messageProcessedTime[id] < MaxAge
    /\ messageProcessedTime' =
          [id \in DOMAIN messageProcessedTime |-> Older(messageProcessedTime[id])]
    /\ lastInvoked' = [id \in DOMAIN lastInvoked |-> Older(lastInvoked[id])]
    /\ UNCHANGED <<state, connected, liveInstance, joinVars, mainPc, loopPc, watchPc,
                   snapshot, eventFired, pending, zkVars, sent, quota, crashed,
                   run, writes, handled>>
    /\ UNCHANGED <<spectator, read>>

(***************************************************************************)
(* Connect and Disconnect (participant.go:91-173).                         *)
(***************************************************************************)
\* Participant.Connect on a cluster that is set up, with the participant's
\* config present: opens the session, starts the goroutines of loop() and
\* creates the live instance
Connect ==
    /\ mainPc = "new"
    /\ ~crashed
    /\ DOMAIN StateModels # {}
    /\ connected' = TRUE
    /\ loopPc' = "spawned"
    /\ watchPc' = "children"
    /\ liveInstance' = TRUE
    /\ liveNode' = NewLiveInstanceNode(ParticipantID, SessionID)
    /\ call' = [call EXCEPT !.result = "nil"]
    /\ mainPc' = "connected"
    /\ UNCHANGED cluster
    /\ UNCHANGED <<state, snapshot, eventFired, pending, messageProcessedTime,
                   zkVars, sent, quota, crashed, histVars>>
    /\ UNCHANGED <<spectator, read>>

\* Disconnect, lines 151-160: the reads of p.state
DisconnectEnter ==
    /\ mainPc \in {"connected", "disconnected"}
    /\ ~crashed
    /\ mainPc' = IF state = PSDisconnected THEN "disconnected"
                 ELSE IF state = PSStarted THEN "sendStop"
                 ELSE "close"
    /\ UNCHANGED <<state, connected, liveInstance, joinVars, loopPc, watchPc, snapshot,
                   eventFired, pending, messageProcessedTime, zkVars, sent, quota,
                   crashed, histVars>>
    /\ UNCHANGED <<spectator, read>>

\* Disconnect, lines 161-162, with the loop's receive at line 482
DisconnectSendStop ==
    /\ mainPc = "sendStop"
    /\ loopPc = "select"
    /\ ~crashed
    /\ mainPc' = "waitStopped"
    /\ loopPc' = "stopping"
    /\ UNCHANGED <<state, connected, liveInstance, joinVars, watchPc, snapshot, eventFired,
                   pending, messageProcessedTime, zkVars, sent, quota, crashed, histVars>>
    /\ UNCHANGED <<spectator, read>>

\* Disconnect, lines 163-165: the poll of p.state
DisconnectWait ==
    /\ mainPc = "waitStopped"
    /\ state = PSStopped
    /\ ~crashed
    /\ mainPc' = "close"
    /\ UNCHANGED <<state, connected, liveInstance, joinVars, loopPc, watchPc, snapshot,
                   eventFired, pending, messageProcessedTime, zkVars, sent, quota,
                   crashed, histVars>>
    /\ UNCHANGED <<spectator, read>>

\* the live-instance node is the ephemeral node of the participant's session
OwnsLiveNode == liveNode # <<>> /\ liveNode[1].session = SessionID

DisconnectKeepSession ==
    /\ mainPc = "close"
    /\ ~crashed
    /\ UNCHANGED <<connected, liveInstance, liveNode>>
    /\ UNCHANGED <<cluster, call>>
    /\ state' = PSDisconnected
    /\ mainPc' = "disconnected"
    /\ UNCHANGED <<loopPc, watchPc, snapshot, eventFired, pending,
                   messageProcessedTime, zkVars, sent, quota, crashed, histVars>>
    /\ UNCHANGED <<spectator, read>>

\* Disconnect, lines 168-172; closing the session removes its ephemeral node
DisconnectClose ==
    /\ mainPc = "close"
    /\ ~crashed
    /\ IF connected
       THEN /\ connected' = FALSE
            /\ liveInstance' = (liveInstance /\ ~OwnsLiveNode)
            /\ liveNode' = IF OwnsLiveNode THEN <<>> ELSE liveNode
       ELSE UNCHANGED <<connected, liveInstance, liveNode>>
    /\ UNCHANGED <<cluster, call>>
    /\ state' = PSDisconnected
    /\ mainPc' = "disconnected"
    /\ UNCHANGED <<loopPc, watchPc, snapshot, eventFired, pending,
                   messageProcessedTime, zkVars, sent, quota, crashed, histVars>>
    /\ UNCHANGED <<spectator, read>>

(***************************************************************************)
(* The goroutine of watchMessages (participant.go:423-437).                *)
(***************************************************************************)
\* the goroutine is about to call ChildrenW: it has just started, or the
\* watch it awaits (line 431) has fired
WatchReady == watchPc = "children" \/ (watchPc = "await" /\ eventFired /\ connected)

\* lines 425-430: ChildrenW, then the send of the snapshot is offered; with
\* the session closed the read is retried for ever
WatchChildren ==
    /\ WatchReady
    /\ ~crashed
    /\ IF connected
       THEN /\ snapshot' = DOMAIN msgs
            /\ eventFired' = FALSE
            /\ watchPc' = "send"
       ELSE /\ watchPc' = "hung"
            /\ UNCHANGED <<snapshot, eventFired>>
    /\ UNCHANGED <<state, connected, liveInstance, joinVars, mainPc, loopPc, pending,
                   messageProcessedTime, zkVars, sent, quota, crashed, histVars>>
    /\ UNCHANGED <<spectator, read>>

\* lines 431-434: the closed session ends the watch with an error event
WatchSessionClosed ==
    /\ watchPc = "await"
    /\ ~connected
    /\ ~crashed
    /\ watchPc' = "sendErr"
    /\ UNCHANGED <<state, connected, liveInstance, joinVars, mainPc, loopPc, snapshot,
                   eventFired, pending, messageProcessedTime, zkVars, sent, quota,
                   crashed, histVars>>
    /\ UNCHANGED <<spectator, read>>


(***************************************************************************)
(* The dispatch goroutine of loop() (participant.go:463-487).              *)
(***************************************************************************)
\* line 466
LoopStart ==
    /\ loopPc = "spawned"
    /\ ~crashed
    /\ state' = PSStarted
    /\ loopPc' = "select"
    /\ UNCHANGED <<connected, liveInstance, joinVars, mainPc, watchPc, snapshot, eventFired,
                   pending, messageProcessedTime, zkVars, sent, quota, crashed, histVars>>
    /\ UNCHANGED <<spectator, read>>

\* the lists ChildrenW may return for a set of children: the coordinator does
\* not fix their order
Listings(ids) ==
    {l \in [1..Cardinality(ids) -> ids] :
        \A i, j \in DOMAIN l : l[i] = l[j] => i = j}

\* the ids a list holds
Listed(list) == {list[i] : i \in DOMAIN list}

\* line 470 with the watcher's send at line 430
LoopReceive ==
    /\ loopPc = "select"
    /\ watchPc = "send"
    /\ ~crashed
    /\ pending' \in Listings(snapshot)
    /\ snapshot' = {}
    /\ loopPc' = IF snapshot = {} THEN "select" ELSE "iter"
    /\ watchPc' = "await"
    /\ UNCHANGED <<state, connected, liveInstance, joinVars, mainPc, eventFired,
                   messageProcessedTime, zkVars, sent, quota, crashed, histVars>>
    /\ UNCHANGED <<spectator, read>>

\* lines 480-481 with the watcher's send at line 433 and its return
LoopError ==
    /\ loopPc = "select"
    /\ watchPc = "sendErr"
    /\ ~crashed
    /\ watchPc' = "exited"
    /\ UNCHANGED <<state, connected, liveInstance, joinVars, mainPc, loopPc, snapshot,
                   eventFired, pending, messageProcessedTime, zkVars, sent, quota,
                   crashed, histVars>>
    /\ UNCHANGED <<spectator, read>>

\* lines 482-484
LoopStop ==
    /\ loopPc = "stopping"
    /\ ~crashed
    /\ state' = PSStopped
    /\ loopPc' = "exited"
    /\ UNCHANGED <<connected, liveInstance, joinVars, mainPc, watchPc, snapshot, eventFired,
                   pending, messageProcessedTime, zkVars, sent, quota, crashed, histVars>>
    /\ UNCHANGED <<spectator, read>>

\* the process ends: its goroutines and the memory they share are gone
Died ==
    /\ crashed' = TRUE
    /\ mainPc' = "dead"
    /\ loopPc' = "dead"
    /\ watchPc' = "dead"
    /\ snapshot' = {}
    /\ eventFired' = FALSE
    /\ pending' = <<>>
    /\ messageProcessedTime' = <<>>

\* a loop that takes the ids from the end of the list
FromTheEnd(list) == list[Len(list)]

\* line 471, `for _, msg := range m`: the id the loop is at
Current(list) == Head(list)

\* the loop's position after one id of the snapshot
AfterIteration(left) == IF left = <<>> THEN "select" ELSE "iter"

\* does the seen cache let the loop process the id (line 474)
NotSeen(id) == id \notin DOMAIN messageProcessedTime

\* lines 471-474: an id of the snapshot that is in the seen cache
LoopSkip(id) ==
    /\ loopPc = "iter"
    /\ pending # <<>>
    /\ id = Current(pending)
    /\ ~NotSeen(id)
    /\ ~crashed
    /\ pending' = Tail(pending)
    /\ loopPc' = AfterIteration(Tail(pending))
    /\ UNCHANGED <<state, connected, liveInstance, joinVars, mainPc, watchPc, snapshot,
                   eventFired, messageProcessedTime, zkVars, sent, quota, crashed,
                   histVars>>
    /\ UNCHANGED <<spectator, read>>

Began(id) == [k \in (DOMAIN lastInvoked) \cup {id} |->
                 IF k = id THEN 0 ELSE lastInvoked[k]]

\* lines 474-476, the message znode missing or the session closed: the Get of
\* processMessage (line 288) is retried for ever
LoopProcessHang(id) ==
    /\ loopPc = "iter"
    /\ pending # <<>>
    /\ id = Current(pending)
    /\ NotSeen(id)
    /\ ~crashed
    /\ ~connected \/ id \notin DOMAIN msgs
    /\ loopPc' = "hung"
    /\ run' = [id |-> id, msg |-> <<>>, events |-> <<>>, outcome |-> "hung"]
    /\ lastInvoked' = Began(id)
    /\ UNCHANGED <<state, connected, liveInstance, joinVars, mainPc, watchPc, snapshot,
                   eventFired, pending, messageProcessedTime, zkVars, sent, quota,
                   crashed, writes, handled>>
    /\ UNCHANGED <<spectator, read>>

\* what the history keeps of a message handled to the end
Handled(message) ==
    [MSG_TYPE       |-> message.MSG_TYPE,
     TGT_SESSION_ID |-> message.TGT_SESSION_ID,
     TO_STATE       |-> message.TO_STATE]

\* line 476: the entry of the seen cache.  The map is shared with the
\* housekeeping goroutine without a lock, and the timestamp is stored after
\* the key is in the map; scanned: the scan of lines 452-456 meets the new key
\* before its timestamp is stored, reads the zero time, which is older than
\* 10 s, and deletes the entry
Recorded(id, scanned) ==
    IF scanned THEN [k \in (DOMAIN messageProcessedTime) \ {id} |->
                        messageProcessedTime[k]]
               ELSE messageProcessedTime @@ (id :> 0)

\* lines 474-476: processMessage(id), then the entry of the seen cache; a panic
\* ends the process and with it every goroutine and the memory they share
LoopProcess(id, raced) ==
    /\ loopPc = "iter"
    /\ pending # <<>>
    /\ id = Current(pending)
    /\ NotSeen(id)
    /\ ~crashed
    /\ connected
    /\ id \in DOMAIN msgs
    /\ raced => WatchReady
    /\ \E r \in {processMessage(id, raced)} :
       LET message == msgs[id]
           key     == <<message.RESOURCE_NAME, message.PARTITION_NAME>>
           armed   == raced \/ WatchArmed
       IN  /\ msgs' = r.msgs
           /\ sessionDirs' = r.dirs
           /\ currentStates' = r.cs
           /\ IF r.outcome = "panicked"
              THEN Died
              ELSE /\ UNCHANGED <<crashed, mainPc>>
                   /\ watchPc' = IF raced THEN "send" ELSE watchPc
                   /\ snapshot' = IF raced THEN DOMAIN msgs ELSE snapshot
                   /\ eventFired' = IF id \notin DOMAIN r.msgs /\ armed THEN TRUE
                                    ELSE IF raced THEN FALSE ELSE eventFired
                   /\ IF r.outcome = "returned"
                      THEN /\ \E scanned \in BOOLEAN :
                                 messageProcessedTime' = Recorded(id, scanned)
                           /\ pending' = Tail(pending)
                           /\ loopPc' = AfterIteration(Tail(pending))
                      ELSE /\ loopPc' = "hung"
                           /\ UNCHANGED <<messageProcessedTime, pending>>
           /\ run' = [id |-> id, msg |-> <<message>>, events |-> r.events,
                      outcome |-> r.outcome]
           /\ lastInvoked' = Began(id)
           /\ writes' = [writes EXCEPT ![key] = @ \o r.wrote]
           /\ handled' =
                 IF r.outcome = "returned" /\ r.events # <<>> /\ r.events[1] # "delete"
                 THEN [handled EXCEPT ![key] = Append(@, Handled(message))]
                 ELSE handled
    /\ UNCHANGED <<state, connected, liveInstance, joinVars, sent, quota>>
    /\ UNCHANGED <<spectator, read>>

(***************************************************************************)
(* The housekeeping goroutine of loop() (participant.go:448-459); it       *)
(* shares the map messageProcessedTime with the dispatch goroutine without *)
(* a lock.                                                                 *)
(***************************************************************************)
\* line 453
Evictable(age) == age > EvictAfterSeconds

Housekeeping ==
    /\ loopPc # "none"
    /\ ~crashed
    /\ \E id \in DOMAIN messageProcessedTime : Evictable(messageProcessedTime[id])
    /\ messageProcessedTime' =
          [id \in {k \in DOMAIN messageProcessedTime :
                      ~Evictable(messageProcessedTime[k])}
             |-> messageProcessedTime[id]]
    /\ UNCHANGED <<state, connected, liveInstance, joinVars, mainPc, loopPc, watchPc,
                   snapshot, eventFired, pending, zkVars, sent, quota, crashed, histVars>>
    /\ UNCHANGED <<spectator, read>>

\* the scan meets the dispatch goroutine's read or write of the map: the Go
\* runtime ends the process ("concurrent map iteration and map write")
HousekeepingRace ==
    /\ loopPc = "iter"
    /\ ~crashed
    /\ Died
    /\ UNCHANGED <<state, connected, liveInstance, joinVars, zkVars, sent, quota, histVars>>
    /\ UNCHANGED <<spectator, read>>

SendMessage == Send(Messages)

SendDispatchMessage == Send(DispatchMessages)

(***************************************************************************)
(* Connect step by step (participant.go:91-131).                           *)
(***************************************************************************)
goroutineVars == <<loopPc, watchPc, snapshot, eventFired, pending,
                   messageProcessedTime>>

controllerVars == <<msgs, sent, quota>>

ConnectValidateLate ==
    /\ mainPc = "new"
    /\ ~crashed
    /\ IF call.registered
       THEN /\ mainPc' = "callbacks"
            /\ UNCHANGED call
       ELSE /\ mainPc' = "failed"
            /\ call' = [call EXCEPT !.result = "ErrNoStateModel",
                                    !.ran = call.callbacks]
    /\ UNCHANGED <<state, connected, liveInstance, liveNode, cluster,
                   goroutineVars, controllerVars, sessionDirs, currentStates,
                   crashed, histVars>>
    /\ UNCHANGED <<spectator, read>>

\* lines 94-96: no state model registered
ConnectValidate ==
    /\ mainPc = "new"
    /\ ~crashed
    /\ IF call.registered
       THEN /\ mainPc' = "callbacks"
            /\ UNCHANGED call
       ELSE /\ mainPc' = "failed"
            /\ call' = [call EXCEPT !.result = "ErrNoStateModel"]
    /\ UNCHANGED <<state, connected, liveInstance, liveNode, cluster,
                   goroutineVars, controllerVars, sessionDirs, currentStates,
                   crashed, histVars>>
    /\ UNCHANGED <<spectator, read>>

\* lines 99-101: the pre-connect callbacks, one after the other
ConnectCallback ==
    /\ mainPc = "callbacks"
    /\ ~crashed
    /\ IF call.ran < call.callbacks
       THEN /\ call' = [call EXCEPT !.ran = @ + 1]
            /\ UNCHANGED mainPc
       ELSE /\ mainPc' = "open"
            /\ UNCHANGED call
    /\ UNCHANGED <<state, connected, liveInstance, liveNode, cluster,
                   goroutineVars, controllerVars, sessionDirs, currentStates,
                   crashed, histVars>>
    /\ UNCHANGED <<spectator, read>>

\* lines 103-106: the coordinator session is opened
ConnectOpen ==
    /\ mainPc = "open"
    /\ ~crashed
    /\ connected' = TRUE
    /\ mainPc' = "isClusterSetup"
    /\ UNCHANGED <<state, liveInstance, joinVars, goroutineVars, controllerVars,
                   sessionDirs, currentStates, crashed, histVars>>
    /\ UNCHANGED <<spectator, read>>

\* lines 108-110, Connection.IsClusterSetup (lines 873-897)
ConnectIsClusterSetup ==
    /\ mainPc = "isClusterSetup"
    /\ ~crashed
    /\ IF cluster.setup
       THEN /\ mainPc' = "ensureConfig"
            /\ UNCHANGED call
       ELSE /\ mainPc' = "failed"
            /\ call' = [call EXCEPT !.result = "ErrClusterNotSetup"]
    /\ UNCHANGED <<state, connected, liveInstance, liveNode, cluster,
                   goroutineVars, controllerVars, sessionDirs, currentStates,
                   crashed, histVars>>
    /\ UNCHANGED <<spectator, read>>

autoJoinAlways(c) == TRUE

\* Participant.autoJoinAllowed (lines 187-206) on a cluster config record
autoJoinAllowed(c) ==
    /\ c.autoJoin # <<>>
    /\ ToLower(c.autoJoin[1]) = "true"

\* the order in which ensureParticipantConfig creates the paths (lines 223-241)
InstancePathOrder ==
    <<"INSTANCE", "CURRENTSTATES", "ERRORS", "HEALTHREPORT", "MESSAGES",
      "STATUSUPDATES">>

CreateNoNodes(paths) == [paths |-> paths, outcome |-> "returned"]

\* Connection.CreateEmptyNode (lines 599-604) of the paths in order: the
\* create of a path that exists fails and must panics
CreateEmptyNodes(paths) ==
    LET taken == {i \in 1..Len(InstancePathOrder) : InstancePathOrder[i] \in paths}
        first == IF taken = {} THEN Len(InstancePathOrder) + 1
                 ELSE CHOOSE i \in taken : \A j \in taken : i <= j
    IN  [paths   |-> paths \cup {InstancePathOrder[i] : i \in 1..(first - 1)},
         outcome |-> IF taken = {} THEN "returned" ELSE "panicked"]

\* Participant.ensureParticipantConfig (lines 208-250)
ensureParticipantConfig(c) ==
    LET exists    == c.config # <<>>
        allowJoin == autoJoinAllowed(c)
        made      == CreateEmptyNodes(c.paths)
    IN  IF ~exists /\ allowJoin
        THEN [cluster |-> [c EXCEPT !.config = NewParticipantConfig,
                                    !.paths = made.paths],
              allowed |-> TRUE, outcome |-> made.outcome]
        ELSE [cluster |-> c, allowed |-> exists, outcome |-> "returned"]

\* lines 112-113
ConnectEnsureParticipantConfig ==
    /\ mainPc = "ensureConfig"
    /\ ~crashed
    /\ \E r \in {ensureParticipantConfig(cluster)} :
          /\ cluster' = r.cluster
          /\ IF r.outcome = "panicked"
             THEN Died
             ELSE /\ mainPc' = IF r.allowed THEN "cleanUp" ELSE "refused"
                  /\ UNCHANGED <<goroutineVars, crashed>>
    /\ UNCHANGED <<state, connected, liveInstance, liveNode, call,
                   controllerVars, sessionDirs, currentStates, histVars>>
    /\ UNCHANGED <<spectator, read>>

\* lines 114-116: Disconnect (no event loop yet: the session is closed and the
\* state set, lines 168-172), then the error is returned
ConnectRefused ==
    /\ mainPc = "refused"
    /\ ~crashed
    /\ connected' = FALSE
    /\ state' = PSDisconnected
    /\ call' = [call EXCEPT !.result = "ErrEnsureParticipantConfig"]
    /\ mainPc' = "failed"
    /\ UNCHANGED <<liveInstance, liveNode, cluster, goroutineVars,
                   controllerVars, sessionDirs, currentStates, crashed, histVars>>
    /\ UNCHANGED <<spectator, read>>

StaleSessionNone(sessionID) == FALSE

\* does cleanUp delete the child of CURRENTSTATES (line 140)
StaleSession(sessionID) == sessionID # SessionID

\* Participant.cleanUp (lines 133-146): DeleteTree of every stale child of
\* CURRENTSTATES, the records under it included
cleanUp(dirs, cs) ==
    [dirs |-> [d \in {x \in DOMAIN dirs : ~StaleSession(x)} |-> dirs[d]],
     cs   |-> [k \in {x \in DOMAIN cs : ~StaleSession(x[1])} |-> cs[k]]]

\* line 120; without the path CURRENTSTATES the read of its children is
\* retried for ever
ConnectCleanUp ==
    /\ mainPc = "cleanUp"
    /\ ~crashed
    /\ IF "CURRENTSTATES" \in cluster.paths
       THEN /\ sessionDirs' = cleanUp(sessionDirs, currentStates).dirs
            /\ currentStates' = cleanUp(sessionDirs, currentStates).cs
            /\ mainPc' = "loop"
       ELSE /\ mainPc' = "hung"
            /\ UNCHANGED <<sessionDirs, currentStates>>
    /\ UNCHANGED <<state, connected, liveInstance, joinVars, goroutineVars,
                   controllerVars, crashed, histVars>>
    /\ UNCHANGED <<spectator, read>>

\* line 123: loop() starts its goroutines and returns
ConnectLoop ==
    /\ mainPc = "loop"
    /\ ~crashed
    /\ loopPc' = "spawned"
    /\ watchPc' = "children"
    /\ mainPc' = "createLive"
    /\ UNCHANGED <<state, connected, liveInstance, joinVars, snapshot,
                   eventFired, pending, messageProcessedTime, controllerVars,
                   sessionDirs, currentStates, crashed, histVars>>
    /\ UNCHANGED <<spectator, read>>

CreateBlind(node, data) == [node |-> node, err |-> "nil"]

\* Connection.Create (lines 695-697) of the ephemeral live-instance node
Create(node, data) ==
    IF node = <<>> THEN [node |-> data, err |-> "nil"]
                   ELSE [node |-> node, err |-> "ErrNodeExists"]

\* createLiveInstance, line 504: the condition of the retry loop
Retrying(retry, err) == retry > 0 /\ err = "ErrNodeExists"

RetriesKept(retry, err) == retry

\* createLiveInstance, lines 508-510
RetriesLeft(retry, err) == IF err # "nil" THEN retry - 1 ELSE retry

\* createLiveInstance, lines 490-502: the first create
CreateLiveInstance ==
    /\ mainPc = "createLive"
    /\ ~crashed
    /\ \E r \in {Create(liveNode, NewLiveInstanceNode(ParticipantID, SessionID))} :
          /\ liveNode' = r.node
          /\ liveInstance' = TRUE
          /\ call' = [call EXCEPT !.err = r.err, !.attempts = @ + 1]
          /\ mainPc' = IF Retrying(call.retry, r.err) THEN "retryWait" ELSE "must"
    /\ UNCHANGED <<state, connected, cluster, goroutineVars, controllerVars,
                   sessionDirs, currentStates, crashed, histVars>>
    /\ UNCHANGED <<spectator, read>>

\* createLiveInstance, lines 505-506: one second passes
LiveInstanceWait ==
    /\ mainPc = "retryWait"
    /\ ~crashed
    /\ call' = [call EXCEPT !.waited = @ + 1]
    /\ mainPc' = "retryCreate"
    /\ UNCHANGED <<state, connected, liveInstance, liveNode, cluster,
                   goroutineVars, controllerVars, sessionDirs, currentStates,
                   crashed, histVars>>
    /\ UNCHANGED <<spectator, read>>

\* createLiveInstance, lines 507-510: a retry of the create
LiveInstanceRetry ==
    /\ mainPc = "retryCreate"
    /\ ~crashed
    /\ \E r \in {Create(liveNode, NewLiveInstanceNode(ParticipantID, SessionID))} :
          /\ liveNode' = r.node
          /\ liveInstance' = TRUE
          /\ call' = [call EXCEPT !.err = r.err, !.attempts = @ + 1,
                                  !.retry = RetriesLeft(@, r.err)]
          /\ mainPc' = IF Retrying(RetriesLeft(call.retry, r.err), r.err)
                       THEN "retryWait" ELSE "must"
    /\ UNCHANGED <<state, connected, cluster, goroutineVars, controllerVars,
                   sessionDirs, currentStates, crashed, histVars>>
    /\ UNCHANGED <<spectator, read>>

\* createLiveInstance, line 514, and Connect, line 130
ConnectReturn ==
    /\ mainPc = "must"
    /\ ~crashed
    /\ IF call.err = "nil"
       THEN /\ call' = [call EXCEPT !.result = "nil"]
            /\ mainPc' = "connected"
            /\ UNCHANGED <<goroutineVars, crashed>>
       ELSE /\ Died
            /\ UNCHANGED call
    /\ UNCHANGED <<state, connected, liveInstance, liveNode, cluster,
                   controllerVars, sessionDirs, currentStates, histVars>>
    /\ UNCHANGED <<spectator, read>>

\* the coordinator ends the participant's previous session and removes its
\* ephemeral live-instance node
PreviousSessionExpires ==
    /\ liveNode # <<>>
    /\ liveNode[1].session = OldSessionID
    /\ liveNode' = <<>>
    /\ liveInstance' = FALSE
    /\ UNCHANGED <<state, connected, mainPc, cluster, call, goroutineVars,
                   controllerVars, sessionDirs, currentStates, crashed, histVars>>
    /\ UNCHANGED <<spectator, read>>

(***************************************************************************)
(* The spectator (unnamed/part_004:20-735): Connect, the watcher goroutines *)
(* that loop() starts, and the dispatch goroutine.  The instance whose      *)
(* current states and messages are listened to is the participant.          *)
(***************************************************************************)
participantVars == <<state, connected, liveInstance, mainPc, goroutineVars,
                     controllerVars, sessionDirs, currentStates, crashed,
                     histVars, joinVars, read>>

\* a run-time error or panic in a goroutine of the spectator ends its process
SpectatorDied(s) ==
    [s EXCEPT !.crashed = TRUE,
              !.pc = "dead",
              !.watchers = [c \in Categories |-> "dead"],
              !.data = [w \in Tracked \X Names |-> "dead"],
              !.dispatch = [pc |-> "dead", kind |-> "none", torn |-> FALSE],
              !.poller = "dead",
              !.spawned = {}]

\* Spectator.Connect, lines 73-84: the session and the check of the cluster
SpectatorConnect ==
    /\ spectator.pc = "new"
    /\ spectator' = [spectator EXCEPT
                        !.pc = IF cluster.setup THEN "loop" ELSE "failed"]
    /\ UNCHANGED participantVars

\* the resources with a current state under CURRENTSTATES/<session>
ResourcesOf(session) ==
    {k[2] : k \in {x \in DOMAIN currentStates : x[1] = session}}

\* watchCurrentStateForInstance (lines 370-383): the resources of the first
\* session read, if there is a session, get a watcher each
WatchedResources(first) ==
    IF first \in DOMAIN sessionDirs THEN ResourcesOf(first) ELSE {}

\* the sessions Children (line 371) may return first; "none" without a session
FirstSessions ==
    IF DOMAIN sessionDirs = {} THEN {"none"} ELSE DOMAIN sessionDirs

\* Spectator.loop (lines 638-683): a watcher for every category that has a
\* listener, then the dispatch goroutine
SpectatorLoop ==
    /\ spectator.pc = "loop"
    /\ \E first \in FirstSessions :
          spectator' = [spectator EXCEPT
             !.pc = "return",
             !.watched = IF "currentState" \in spectator.listeners
                            /\ WatchedResources(first) # {}
                         THEN first ELSE "none",
             !.dispatch.pc = "select",
             !.poller = IF "currentState" \in spectator.listeners
                           /\ WatchedResources(first) # {}
                        THEN "tick" ELSE "none",
             !.watchers = [c \in Categories |->
                IF c \notin spectator.listeners THEN "none"
                ELSE IF c = "currentState" /\ WatchedResources(first) = {}
                     THEN "none"
                     ELSE "start"]]
    /\ UNCHANGED participantVars

\* Spectator.Connect, lines 90-92
SpectatorReturn ==
    /\ spectator.pc = "return"
    /\ spectator' = [spectator EXCEPT !.pc = "connected", !.state = "CONNECTED"]
    /\ UNCHANGED participantVars

\* where a watcher goes once it has set its watch: the watchers of the current
\* states wait for an event first (lines 406-413), the watcher of the instance
\* messages sends on the channel of instance messages (line 620), the others
\* send a notification (lines 434, 481, 538, 580, 602)
AfterWatch(c) ==
    CASE c = "currentState" -> "await"
      [] c = "message"      -> "sendInstance"
      [] OTHER              -> "send"

\* is the path a current-state watcher reads gone: the current states of the
\* session it was started for
WatchPathGone == WatchedResources(spectator.watched) = {}

\* the ChildrenW or GetW of a watcher goroutine that keeps no tracking map; the
\* GetW of a current state that is gone (line 406) is retried for ever
Watch(c) ==
    /\ c \notin Tracked
    /\ spectator.watchers[c] = "start"
    /\ spectator' = [spectator EXCEPT
                       !.watchers[c] = IF c = "currentState" /\ WatchPathGone
                                       THEN "hung" ELSE AfterWatch(c),
                       !.fired = @ \ {c}]
    /\ UNCHANGED participantVars

\* the poller of a current-state watcher (lines 396-404): at a tick Exists
\* finds the path gone and the poller goes to send on the stop channel, which
\* has no buffer (line 392)
PollerTick ==
    /\ spectator.poller = "tick"
    /\ WatchPathGone
    /\ spectator' = [spectator EXCEPT !.poller = "stopping"]
    /\ UNCHANGED participantVars

\* the watcher takes the stop signal at its select (lines 414-416), removes the
\* entry of the path and returns; the poller returns after its send
StopWatch ==
    /\ spectator.poller = "stopping"
    /\ spectator.watchers["currentState"] = "await"
    /\ spectator' = [spectator EXCEPT !.poller = "exited",
                                      !.watchers["currentState"] = "exited",
                                      !.watched = "none"]
    /\ UNCHANGED participantVars

\* a refresh that forgets the entries of the children that are gone
RefreshedForgetting(map, listed) == [k \in listed |-> TRUE]

\* the tracking map after a root snapshot (lines 573-578): every entry false,
\* then the entries of the snapshot true
Refreshed(map, listed) ==
    [k \in (DOMAIN map) \cup listed |-> k \in listed]

\* the children of a snapshot that get a data watcher (lines 563-569)
NewlyAdded(map, listed) == listed \ DOMAIN map

\* one round of watchExternalView, watchIdealState or watchInstanceConfig up to
\* its send: ChildrenW, the data watchers of the new children, the refresh of
\* the tracking map.  raced: the dispatch goroutine iterates the same unlocked
\* map in GetExternalView / GetIdealState and the runtime stops the process
\* ("concurrent map iteration and map write"); if the runtime does not notice,
\* the iteration sees a torn map
WatchRoot(c, raced) ==
    /\ c \in Tracked
    /\ spectator.watchers[c] = "start"
    /\ c = "instanceConfig" => spectator.lock = "free"
    /\ LET overlap  == /\ c \in Unlocked
                       /\ spectator.dispatch.pc = "handling"
                       /\ spectator.dispatch.kind = c
           listed == DOMAIN cluster.trees[c]
           new      == NewlyAdded(spectator.tracking[c], listed)
       IN  /\ raced => overlap
           /\ spectator' =
                IF raced THEN SpectatorDied(spectator)
                ELSE [spectator EXCEPT
                        !.watchers[c] = "send",
                        !.fired = @ \ {c},
                        !.tracking[c] = Refreshed(@, listed),
                        !.data = [w \in Tracked \X Names |->
                                    IF w[1] = c /\ w[2] \in new THEN "start"
                                    ELSE @[w]],
                        !.dispatch.torn = (@ \/ overlap)]
    /\ UNCHANGED participantVars

\* what a watcher does when its watch has fired: the watchers of the
\* controller messages and of the instance messages return (lines 605, 623),
\* the watcher of a current state sends its notification (line 412), the
\* others set their watch again
AfterEvent(c) ==
    CASE c \in {"controllerMessage", "message"} -> "exited"
      [] c = "currentState"                      -> "send"
      [] OTHER                                   -> "start"

\* `<-events` of a watcher goroutine
Await(c) ==
    /\ spectator.watchers[c] = "await"
    /\ c \in spectator.fired
    /\ spectator' = [spectator EXCEPT !.watchers[c] = AfterEvent(c),
                                      !.fired = @ \ {c}]
    /\ UNCHANGED participantVars

\* watchInstanceMessages, line 620: nothing receives from the channel of
\* instance messages, so the send ends only if the channel has room
SendInstanceMessage ==
    /\ spectator.watchers["message"] = "sendInstance"
    /\ spectator.buffered
    /\ spectator' = [spectator EXCEPT !.watchers["message"] = "await"]
    /\ UNCHANGED participantVars

\* watchExternalViewResource, watchIdealStateResource and
\* watchInstanceConfigForParticipant: GetW; the read of a znode that is gone is
\* retried for ever
WatchData(c, k) ==
    /\ spectator.data[<<c, k>>] = "start"
    /\ spectator' = [spectator EXCEPT
          !.data[<<c, k>>] = IF k \in DOMAIN cluster.trees[c]
                             THEN "await" ELSE "hung",
          !.dataFired = @ \ {<<c, k>>}]
    /\ UNCHANGED participantVars

\* `<-events` of a data watcher
AwaitData(c, k) ==
    /\ spectator.data[<<c, k>>] = "await"
    /\ <<c, k>> \in spectator.dataFired
    /\ spectator' = [spectator EXCEPT !.data[<<c, k>>] = "send",
                                      !.dataFired = @ \ {<<c, k>>}]
    /\ UNCHANGED participantVars

\* where a watcher goes after its send: the watcher of a current state sets
\* its watch again (line 413), the others await the event of their watch
AfterSend(c) == IF c = "currentState" THEN "start" ELSE "await"

\* the dispatch goroutine (lines 674-678) receives the notification of a root
\* watcher
Notify(c) ==
    /\ spectator.dispatch.pc = "select"
    /\ spectator.watchers[c] = "send"
    /\ spectator' = [spectator EXCEPT
          !.watchers[c] = AfterSend(c),
          !.pushed[c] = @ + 1,
          !.dispatch = [pc |-> "handling", kind |-> c, torn |-> FALSE]]
    /\ UNCHANGED participantVars

\* the dispatch goroutine receives the notification of a data watcher, which
\* then sets its watch again
NotifyData(c, k) ==
    /\ spectator.dispatch.pc = "select"
    /\ spectator.data[<<c, k>>] = "send"
    /\ spectator' = [spectator EXCEPT
          !.data[<<c, k>>] = "start",
          !.pushed[c] = @ + 1,
          !.dispatch = [pc |-> "handling", kind |-> c, torn |-> FALSE]]
    /\ UNCHANGED participantVars

\* the children GetExternalView / GetIdealState (lines 292-328) ask for: the
\* entries of the tracking map that are true
MarkedPresent(c) ==
    {k \in DOMAIN spectator.tracking[c] : spectator.tracking[c][k]}

\* the snapshots a Get* of handleChangeNotification may read for a category;
\* GetControllerMessages and GetInstanceMessages keep a record only when its
\* read failed (lines 243, 262), which a read that is retried for ever never
\* does
Snapshots(c) ==
    IF c \in Unlocked
    THEN IF spectator.dispatch.torn THEN SUBSET MarkedPresent(c)
                                    ELSE {MarkedPresent(c)}
    ELSE IF c \in {"controllerMessage", "message", "currentState"} THEN {{}}
    ELSE {DOMAIN cluster.trees[c]}

\* does the Get* of a category read a znode that does not exist, a read that
\* is retried for ever: a child the tracking map still marks present, or, in
\* GetCurrentState (lines 331-345), the children of INSTANCES/<id> under the
\* spectator's own session id
ReadsMissing(c, listed) ==
    \/ c \in Unlocked /\ listed \ DOMAIN cluster.trees[c] # {}
    \/ c = "currentState" /\ cluster.paths # {}

\* a handleChangeNotification that calls the listeners itself
HandleInline ==
    /\ spectator.dispatch.pc = "handling"
    /\ \E listed \in Snapshots(spectator.dispatch.kind), returns \in BOOLEAN :
          spectator' =
             IF ReadsMissing(spectator.dispatch.kind, listed)
             THEN [spectator EXCEPT !.dispatch.pc = "hung"]
             ELSE [spectator EXCEPT
                     !.dispatch = IF returns
                                  THEN [pc |-> "select", kind |-> "none",
                                        torn |-> FALSE]
                                  ELSE [@ EXCEPT !.pc = "listener"],
                     !.shown[spectator.dispatch.kind] = listed,
                     !.invoked = @ \cup {spectator.dispatch.kind},
                     !.blocked = IF returns THEN @
                                 ELSE @ \cup {spectator.dispatch.kind}]
    /\ UNCHANGED participantVars

\* handleChangeNotification (lines 685-735): the Get* of the category, then a
\* goroutine for every listener of the category
Handle ==
    /\ spectator.dispatch.pc = "handling"
    /\ \E listed \in Snapshots(spectator.dispatch.kind) :
          spectator' =
             IF ReadsMissing(spectator.dispatch.kind, listed)
             THEN [spectator EXCEPT !.dispatch.pc = "hung"]
             ELSE [spectator EXCEPT
                     !.dispatch = [pc |-> "select", kind |-> "none",
                                   torn |-> FALSE],
                     !.shown[spectator.dispatch.kind] = listed,
                     !.spawned = @ \cup {spectator.dispatch.kind}]
    /\ UNCHANGED participantVars

\* the goroutines of `go listener(...)` run and return
ListenerRun(c) ==
    /\ c \in spectator.spawned
    /\ spectator' = [spectator EXCEPT !.spawned = @ \ {c},
                                      !.invoked = @ \cup {c}]
    /\ UNCHANGED participantVars

\* the goroutines of `go listener(...)` run a listener that never returns
ListenerBlocks(c) ==
    /\ c \in spectator.spawned
    /\ spectator' = [spectator EXCEPT !.spawned = @ \ {c},
                                      !.invoked = @ \cup {c},
                                      !.blocked = @ \cup {c}]
    /\ UNCHANGED participantVars

\* Spectator.Disconnect, lines 95-102: called before Connect, after a Connect
\* that failed or after one that returned nil; a spectator whose state is not
\* spectatorDisConnected goes to send on the stop channel, which has no buffer
SpectatorDisconnect ==
    /\ spectator.pc \in {"new", "failed", "connected"}
    /\ spectator.state = "CONNECTED"
    /\ spectator' = [spectator EXCEPT !.pc = "stopping"]
    /\ UNCHANGED participantVars

\* the stop signal (line 102) is taken by the dispatch goroutine at its select
\* (lines 671-673), which sets the state and returns; the channel is closed
\* (line 103); the session stays open and no watcher is told to stop
SpectatorStop ==
    /\ spectator.pc = "stopping"
    /\ spectator.dispatch.pc = "select"
    /\ spectator' = [spectator EXCEPT !.pc = "waiting",
                                      !.state = "DISCONNECTED",
                                      !.dispatch.pc = "exited"]
    /\ UNCHANGED participantVars

\* Spectator.Disconnect, lines 106-111: the wait for the state, and the return
SpectatorDisconnected ==
    /\ spectator.pc = "waiting"
    /\ spectator.state = "DISCONNECTED"
    /\ spectator' = [spectator EXCEPT !.pc = "disconnected"]
    /\ UNCHANGED participantVars

\* Spectator.IsConnected (lines 114-116)
IsConnected(s) == s.state = "CONNECTED"

\* is the listener the first of its category (lines 155, 174)
FirstListener(s, c) == s.count[c] = 0

\* AddCurrentStateChangeListener and AddMessageListener (lines 143-177), called
\* between Connect and Disconnect or after it.  The call holds the lock; the
\* first listener of a connected spectator starts the watcher: for the
\* messages a goroutine, for the current states
\* watchCurrentStateOfInstanceForResource, which takes the same lock again
\* (line 386) and so blocks for ever with the lock held.  A run follows the
\* listeners of one category
AddListener(c) ==
    /\ c \in {"currentState", "message"}
    /\ spectator.pc \in {"connected", "disconnected"}
    /\ spectator.lock = "free"
    /\ spectator.count[c] < MaxListeners
    /\ spectator.listeners \subseteq {c}
    /\ \E first \in FirstSessions :
       LET starts   == FirstListener(spectator, c) /\ IsConnected(spectator)
           added    == [spectator EXCEPT !.count[c] = @ + 1,
                                         !.listeners = @ \cup {c}]
       IN  spectator' =
             IF ~starts THEN added
             ELSE IF c = "message"
                  THEN [added EXCEPT !.watchers[c] = "start"]
                  ELSE IF WatchedResources(first) = {} THEN added
                       ELSE [added EXCEPT !.lock = "held", !.pc = "deadlocked"]
    /\ UNCHANGED participantVars

\* the spectator's watch on the root of a category is set and has not fired
RootArmed(c) == spectator.watchers[c] \in {"send", "sendInstance", "await"}

\* the watch of a data watcher is set
DataArmed(c, k) == spectator.data[<<c, k>>] = "await"

\* the watches a change of the children of a root fires
RootFired(s, c) == IF RootArmed(c) THEN s.fired \cup {c} ELSE s.fired

\* the watches a change of a child's data fires
DataFired(s, c, k) ==
    IF c \in Tracked /\ DataArmed(c, k) THEN s.dataFired \cup {<<c, k>>}
    ELSE s.dataFired

\* somebody adds a child under the root of a category that is listened to
AddChild(c, k) ==
    /\ c \in ClusterCategories \cap spectator.listeners
    /\ spectator.changes < MaxChanges
    /\ ~spectator.crashed
    /\ k \notin DOMAIN cluster.trees[c]
    /\ cluster' = [cluster EXCEPT !.trees[c] = @ @@ (k :> 0)]
    /\ spectator' = [spectator EXCEPT !.changes = @ + 1,
                                      !.fired = RootFired(spectator, c)]
    /\ UNCHANGED <<state, connected, liveInstance, mainPc, goroutineVars,
                   controllerVars, sessionDirs, currentStates, crashed,
                   histVars, liveNode, call, read>>

\* somebody removes a child
RemoveChild(c, k) ==
    /\ c \in ClusterCategories \cap spectator.listeners
    /\ spectator.changes < MaxChanges
    /\ ~spectator.crashed
    /\ k \in DOMAIN cluster.trees[c]
    /\ cluster' = [cluster EXCEPT
          !.trees[c] = [x \in (DOMAIN @) \ {k} |-> @[x]]]
    /\ spectator' = [spectator EXCEPT !.changes = @ + 1,
                                      !.fired = RootFired(spectator, c),
                                      !.dataFired = DataFired(spectator, c, k)]
    /\ UNCHANGED <<state, connected, liveInstance, mainPc, goroutineVars,
                   controllerVars, sessionDirs, currentStates, crashed,
                   histVars, liveNode, call, read>>

\* somebody writes the data of a child
TouchChild(c, k) ==
    /\ c \in Tracked \cap spectator.listeners
    /\ spectator.changes < MaxChanges
    /\ ~spectator.crashed
    /\ k \in DOMAIN cluster.trees[c]
    /\ cluster' = [cluster EXCEPT !.trees[c][k] = @ + 1]
    /\ spectator' = [spectator EXCEPT !.changes = @ + 1,
                                      !.dataFired = DataFired(spectator, c, k)]
    /\ UNCHANGED <<state, connected, liveInstance, mainPc, goroutineVars,
                   controllerVars, sessionDirs, currentStates, crashed,
                   histVars, liveNode, call, read>>

\* the controller writes a message for the instance
MessageArrives ==
    /\ "message" \in spectator.listeners
    /\ spectator.changes < MaxChanges
    /\ ~spectator.crashed
    /\ msgs' = msgs @@ ((sent + 1) :> DefaultMessage)
    /\ sent' = sent + 1
    /\ spectator' = [spectator EXCEPT !.changes = @ + 1,
                                      !.fired = RootFired(spectator, "message")]
    /\ UNCHANGED <<state, connected, liveInstance, mainPc, goroutineVars,
                   quota, sessionDirs, currentStates, crashed, histVars,
                   joinVars, read>>

\* the instance writes the current state the spectator watches
CurrentStateChanges ==
    /\ spectator.watched # "none"
    /\ spectator.changes < MaxChanges
    /\ ~spectator.crashed
    /\ \E r \in WatchedResources(spectator.watched) :
          currentStates' = [currentStates EXCEPT
                              ![<<spectator.watched, r>>].version = @ + 1]
    /\ spectator' = [spectator EXCEPT
                        !.changes = @ + 1,
                        !.fired = IF spectator.watchers["currentState"] = "await"
                                  THEN @ \cup {"currentState"} ELSE @]
    /\ UNCHANGED <<state, connected, liveInstance, mainPc, goroutineVars,
                   controllerVars, sessionDirs, crashed, histVars, joinVars,
                   read>>

\* the session of the instance has expired and its current states are purged
CurrentStatePurged ==
    /\ spectator.watched # "none"
    /\ spectator.changes < MaxChanges
    /\ ~spectator.crashed
    /\ ~WatchPathGone
    /\ sessionDirs' = [d \in (DOMAIN sessionDirs) \ {spectator.watched} |->
                          sessionDirs[d]]
    /\ currentStates' = [k \in {x \in DOMAIN currentStates :
                                   x[1] # spectator.watched} |->
                            currentStates[k]]
    /\ spectator' = [spectator EXCEPT
                        !.changes = @ + 1,
                        !.fired = IF spectator.watchers["currentState"] = "await"
                                  THEN @ \cup {"currentState"} ELSE @]
    /\ UNCHANGED <<state, connected, liveInstance, mainPc, goroutineVars,
                   controllerVars, crashed, histVars, joinVars, read>>

(***************************************************************************)
(* The reads of the coordinator wrapper (participant.go:628-731): each     *)
(* runs the call of the client in retry.RetryWithBackoff(zkRetryOptions),  *)
(* which repeats it while the closure returns RetryContinue; the options   *)
(* (lines 530-539) set no limit to the retries.                            *)
(***************************************************************************)
callerVars == <<state, connected, liveInstance, mainPc, goroutineVars,
                controllerVars, sessionDirs, currentStates, crashed,
                histVars, joinVars, spectator>>

\* what the coordinator's client answers to one call: a transport error, the
\* value, or for a path that does not exist the error "no node"; Exists alone
\* reports a missing path as a value (false) and not as an error
zkCall(op, exists, fault) ==
    IF fault THEN "connectionLoss"
    ELSE IF exists THEN "value"
    ELSE IF op = "Exists" THEN "absent"
    ELSE "noNode"

\* the answers that come as an error
IsError(answer) == answer \in {"connectionLoss", "noNode"}

\* the closure of a read (lines 633-640, 660-667, 677-685, 703-710, 720-728):
\* any error asks for a retry
RetryStatus(answer) ==
    IF IsError(answer) THEN "RetryContinue" ELSE "RetryBreak"

\* a caller starts a read of a path
ReadCall(op, exists) ==
    /\ read.pc = "idle"
    /\ read' = [NoRead EXCEPT !.op = op, !.pc = "attempt", !.exists = exists]
    /\ UNCHANGED callerVars

\* one attempt: the call of the client and the closure's verdict on it
ReadAttempt(fault) ==
    /\ read.pc = "attempt"
    /\ fault => read.faults < MaxFaults
    /\ LET answer == zkCall(read.op, read.exists, fault)
       IN  read' = IF RetryStatus(answer) = "RetryBreak"
                   THEN [read EXCEPT !.pc = "returned", !.last = answer,
                                     !.result = answer]
                   ELSE [read EXCEPT !.pc = "backoff", !.last = answer,
                                     !.faults = IF fault THEN @ + 1 ELSE @]
    /\ UNCHANGED callerVars

\* the wait between two attempts; the retries have no limit
ReadBackoff ==
    /\ read.pc = "backoff"
    /\ read.attempts < MaxAttempts
    /\ read' = [read EXCEPT !.pc = "attempt", !.attempts = @ + 1]
    /\ UNCHANGED callerVars

\* somebody creates or deletes the path while it is read
PathChanges ==
    /\ read.pc \in {"attempt", "backoff"}
    /\ read.result = "none"
    /\ read' = [read EXCEPT !.exists = ~@]
    /\ UNCHANGED callerVars

(***************************************************************************)
(* Connection.UpdateMapField (participant.go:743-767) called on its own on *)
(* the znode of a record.                                                  *)
(***************************************************************************)
\* the properties and values of a key of the map fields
Properties == {"CURRENT_STATE", "INFO"}

PropertyValues == {"OFFLINE", "SLAVE"}

\* the updates of one znode that are followed
MaxUpdates == 2

\* the maps from some of the keys to some of the values
PartialMaps(keys, values) == UNION {[ks -> values] : ks \in SUBSET keys}

\* the map fields a record may hold: every key with at least one property
MapFieldsOf ==
    PartialMaps(Partitions, PartialMaps(Properties, PropertyValues) \ {<<>>})

\* the znode of a record with the given map fields
RecordNode(mapFields) ==
    [data    |-> <<[id              |-> "R",
                    STATE_MODEL_DEF |-> "MasterSlave",
                    SESSION_ID      |-> SessionID,
                    listFields      |-> [R_1 |-> <<ParticipantID>>],
                    mapFields       |-> mapFields]>>,
     version |-> 0]

\* UpdateMapField(path, key, property, value), with nobody else on the
\* connection: the Set carries the version the Get has read
UpdateMapFieldCall(path, key, property, value) ==
    /\ path \in DOMAIN currentStates
    /\ currentStates[path].version < MaxUpdates
    /\ LET node == currentStates[path]
           upd  == UpdateMapField(node, key, property, value, node.version)
       IN  /\ currentStates' = [currentStates EXCEPT ![path] = upd.node]
           /\ run' = [NoRun EXCEPT
                        !.events = <<"UpdateMapField", key, property, value>>,
                        !.outcome = IF upd.ok THEN "returned" ELSE "error"]
    /\ UNCHANGED <<state, connected, liveInstance, mainPc, goroutineVars,
                   controllerVars, sessionDirs, crashed, lastInvoked, writes,
                   handled, joinVars, spectator, read>>

(***************************************************************************)
(* Connection.IsClusterSetup (participant.go:873-897) called on its own.   *)
(***************************************************************************)
\* KeyBuilder.cluster() (part_010:12-14)
ClusterRoot == "/"

\* the non-leaf paths of the layout of a cluster, under the root
LayoutPaths ==
    {"CONFIGS/CLUSTER", "CONFIGS/PARTICIPANT", "CONFIGS/RESOURCE",
     "IDEALSTATES", "EXTERNALVIEW", "LIVEINSTANCES", "INSTANCES",
     "STATEMODELDEFS", "CONTROLLER", "CONTROLLER/ERRORS", "CONTROLLER/HISTORY",
     "CONTROLLER/MESSAGES", "CONTROLLER/STATUSUPDATES", "PROPERTYSTORE"}

\* the children of CONTROLLER in the layout
ControllerPaths ==
    {"CONTROLLER/ERRORS", "CONTROLLER/HISTORY", "CONTROLLER/MESSAGES",
     "CONTROLLER/STATUSUPDATES"}

\* the paths of the layout that are missing in the clusters looked at
MaxMissing == 2

\* the sets of paths a coordinator tree can hold: a path has its parent
Trees ==
    {t \in SUBSET (LayoutPaths \cup {ClusterRoot}) :
        /\ Cardinality((LayoutPaths \cup {ClusterRoot}) \ t) <= MaxMissing
        /\ t # {} => ClusterRoot \in t
        /\ t \cap ControllerPaths # {} => "CONTROLLER" \in t}

\* the paths IsClusterSetup asks for, in its order (lines 882-896)
CheckedPaths ==
    <<ClusterRoot, "IDEALSTATES", "CONFIGS/PARTICIPANT", "PROPERTYSTORE",
      "LIVEINSTANCES", "INSTANCES", "EXTERNALVIEW", "STATEMODELDEFS",
      "CONTROLLER", "CONTROLLER/ERRORS", "CONTROLLER/HISTORY",
      "CONTROLLER/MESSAGES", "CONTROLLER/STATUSUPDATES">>

\* Connection.ExistsAll (lines 646-654): false at the first path that is missing
RECURSIVE ExistsAll(_, _)
ExistsAll(paths, present) ==
    IF paths = <<>> THEN TRUE
    ELSE IF Head(paths) \notin present THEN FALSE
    ELSE ExistsAll(Tail(paths), present)

\* Connection.IsClusterSetup on an open session
IsClusterSetup(present) == ExistsAll(CheckedPaths, present)

\* a caller asks whether the cluster is set up
IsClusterSetupCall ==
    /\ mainPc = "new"
    /\ mainPc' = "returned"
    /\ call' = [call EXCEPT
                  !.result = IF IsClusterSetup(cluster.layout) THEN "true"
                             ELSE "false"]
    /\ UNCHANGED <<state, connected, liveInstance, liveNode, cluster,
                   goroutineVars, controllerVars, sessionDirs, currentStates,
                   crashed, histVars, spectator, read>>

(***************************************************************************)
(* Context (part_012): the keyed bag the dispatch loop of a spectator      *)
(* writes its trigger to (part_004:687-691) and listeners read.            *)
(***************************************************************************)
ContextKeys == {"trigger", "owner"}

ContextValues == {"/EXTERNALVIEW", "/IDEALSTATES"}

\* the calls of Set and of Get looked at
MaxSets == 2

MaxGets == 2

\* NewContext (lines 10-15): an empty map; no call is running
NewContext ==
    [data |-> <<>>, lock |-> "free",
     set |-> [pc |-> "idle", key |-> "none", value |-> "none"],
     get |-> [pc |-> "idle", key |-> "none", result |-> "none", raced |-> FALSE],
     sets |-> 0, gets |-> 0, crashed |-> FALSE]

\* the value a map holds for a key: nil when the key was never set
ValueOf(data, k) == IF k \in DOMAIN data THEN data[k] ELSE "nil"

\* Context.Set, c.Lock() (line 18)
ContextSetLock(k, v) ==
    /\ ~spectator.crashed
    /\ spectator.set.pc = "idle"
    /\ spectator.sets < MaxSets
    /\ spectator.lock = "free"
    /\ spectator' = [spectator EXCEPT
                       !.lock = "held",
                       !.sets = @ + 1,
                       !.set = [pc |-> "locked", key |-> k, value |-> v]]
    /\ UNCHANGED participantVars

\* Context.Set, c.data[key] = value (line 19): the write of the map begins
ContextSetWrite ==
    /\ ~spectator.crashed
    /\ spectator.set.pc = "locked"
    /\ spectator' = [spectator EXCEPT
                       !.set.pc = "writing",
                       !.get.raced = @ \/ spectator.get.pc = "reading"]
    /\ UNCHANGED participantVars

\* Context.Set, line 19: the write of the map ends
ContextSetWritten ==
    /\ ~spectator.crashed
    /\ spectator.set.pc = "writing"
    /\ spectator' = [spectator EXCEPT
                       !.set.pc = "written",
                       !.data = (spectator.set.key :> spectator.set.value) @@ @]
    /\ UNCHANGED participantVars

\* Context.Set, c.Unlock() (line 20)
ContextSetUnlock ==
    /\ ~spectator.crashed
    /\ spectator.set.pc = "written"
    /\ spectator' = [spectator EXCEPT !.set.pc = "idle", !.lock = "free"]
    /\ UNCHANGED participantVars

\* Context.Get, v, ok := c.data[key] (line 24): the read of the map begins; the
\* lock is not asked for
ContextGetRead(k) ==
    /\ ~spectator.crashed
    /\ spectator.get.pc = "idle"
    /\ spectator.gets < MaxGets
    /\ spectator' = [spectator EXCEPT
                       !.gets = @ + 1,
                       !.get = [pc |-> "reading", key |-> k, result |-> "none",
                                raced |-> spectator.set.pc = "writing"]]
    /\ UNCHANGED participantVars

\* Context.Get, lines 24-29: the read ends.  A read that met a write of the
\* map is a data race: the runtime stops the process ("concurrent map read and
\* map write") or the read yields the value before or after the write.
ContextGetReturn ==
    /\ ~spectator.crashed
    /\ spectator.get.pc = "reading"
    /\ \/ /\ ~spectator.get.raced
          /\ spectator' = [spectator EXCEPT
                             !.get.pc = "idle",
                             !.get.result = ValueOf(spectator.data, spectator.get.key)]
       \/ /\ spectator.get.raced
          /\ \E v \in ContextValues \cup {"nil"} :
                spectator' = [spectator EXCEPT
                                !.get.pc = "idle",
                                !.get.raced = FALSE,
                                !.get.result = v]
       \/ /\ spectator.get.raced
          /\ spectator' = [spectator EXCEPT !.crashed = TRUE]
    /\ UNCHANGED participantVars

(***************************************************************************)
(* IdealState (part_006): a record and the setters of its simple fields.   *)
(* Strings that a setter converts are sequences of characters.             *)
(***************************************************************************)
\* the integers handed to SetNumPartitions and SetReplicas
MaxNumber == 11

\* the length of the strings handed to SetRebalanceMode
MaxLen == 2

\* the calls of setters on one IdealState
MaxCalls == 2

Digits == <<"0", "1", "2", "3", "4", "5", "6", "7", "8", "9">>

Letters == {"a", "B", "_"}

Numbers == (-2) .. MaxNumber

RebalanceModes == UNION {[1 .. n -> Letters] : n \in 0 .. MaxLen}

StateModelRefs == {"MasterSlave", "OnlineOffline"}

\* strconv.Itoa of a natural number
RECURSIVE FormatNat(_)
FormatNat(n) ==
    IF n < 10 THEN <<Digits[n + 1]>>
    ELSE FormatNat(n \div 10) \o <<Digits[(n % 10) + 1]>>

\* strconv.Itoa
Itoa(n) == IF n < 0 THEN <<"-">> \o FormatNat(-n) ELSE FormatNat(n)

\* unicode.ToUpper of a character
UpperOf(ch) == IF ch = "a" THEN "A" ELSE ch

\* strings.ToUpper of a string given by its characters
ToUpperChars(str) == [i \in DOMAIN str |-> UpperOf(str[i])]

\* NewRecord(id): a record without fields
NewRecord(id) ==
    [id |-> id, simpleFields |-> <<>>, listFields |-> <<>>, mapFields |-> <<>>]

\* Record.SetSimpleField(key, value)
SetSimpleField(record, key, value) ==
    [record EXCEPT !.simpleFields =
        [k \in (DOMAIN @) \cup {key} |-> IF k = key THEN value ELSE @[k]]]

\* Record.GetSimpleField(key): nil for a field that is not set
GetSimpleField(record, key) ==
    IF key \in DOMAIN record.simpleFields THEN record.simpleFields[key]
    ELSE "nil"

\* NewIdealState (lines 35-41)
NewIdealState(resource) == [record |-> NewRecord(resource)]

\* IdealState.SetNumPartitions (lines 43-45)
SetNumPartitions(is, numPartitions) ==
    [is EXCEPT !.record = SetSimpleField(@, "NUM_PARTITIONS", Itoa(numPartitions))]

\* IdealState.SetStateModelDefRef (lines 47-49)
SetStateModelDefRef(is, stateModel) ==
    [is EXCEPT !.record = SetSimpleField(@, "STATE_MODEL_DEF_REF", stateModel)]

\* a SetRebalanceMode that stores the mode as it is given
SetRebalanceModeAsGiven(is, rebalance) ==
    [is EXCEPT !.record = SetSimpleField(@, "REBALANCE_MODE", rebalance)]

\* IdealState.SetRebalanceMode (lines 51-53)
SetRebalanceMode(is, rebalance) ==
    [is EXCEPT !.record = SetSimpleField(@, "REBALANCE_MODE", ToUpperChars(rebalance))]

\* IdealState.SetReplicas (lines 55-57)
SetReplicas(is, replicas) ==
    [is EXCEPT !.record = SetSimpleField(@, "REPLICAS", Itoa(replicas))]

\* the setters and the arguments each takes
Setters ==
    ({"SetNumPartitions", "SetReplicas"} \X Numbers)
    \cup ({"SetStateModelDefRef"} \X StateModelRefs)
    \cup ({"SetRebalanceMode"} \X RebalanceModes)

\* the simple field a setter writes
FieldOf(setter) ==
    CASE setter = "SetNumPartitions"    -> "NUM_PARTITIONS"
      [] setter = "SetReplicas"         -> "REPLICAS"
      [] setter = "SetStateModelDefRef" -> "STATE_MODEL_DEF_REF"
      [] setter = "SetRebalanceMode"    -> "REBALANCE_MODE"

\* the application calls a setter of its IdealState
IdealStateCall(setter, argument) ==
    /\ call.calls < MaxCalls
    /\ call' = [calls    |-> call.calls + 1,
                setter   |-> setter,
                argument |-> argument,
                is       |->
                   CASE setter = "SetNumPartitions" ->
                           SetNumPartitions(call.is, argument)
                     [] setter = "SetReplicas" ->
                           SetReplicas(call.is, argument)
                     [] setter = "SetStateModelDefRef" ->
                           SetStateModelDefRef(call.is, argument)
                     [] setter = "SetRebalanceMode" ->
                           SetRebalanceMode(call.is, argument)]
    /\ UNCHANGED <<state, connected, liveInstance, mainPc, liveNode, cluster,
                   goroutineVars, controllerVars, sessionDirs, currentStates,
                   crashed, histVars, spectator, read>>

\* the message pipeline of a connected participant
Next ==
    \/ SendMessage
    \/ Connect
    \/ WatchChildren
    \/ LoopStart
    \/ LoopReceive
    \/ \E id \in Listed(pending) : LoopSkip(id)
    \/ \E id \in Listed(pending), raced \in BOOLEAN : LoopProcess(id, raced)

Spec == Init /\ [][Next]_vars

\* the dispatch loop with its seen cache, the clock and the housekeeping
NextDispatch ==
    \/ SendDispatchMessage
    \/ Tick
    \/ Connect
    \/ WatchChildren
    \/ LoopStart
    \/ LoopReceive
    \/ \E id \in Listed(pending) : LoopSkip(id)
    \/ \E id \in Listed(pending) : LoopProcessHang(id)
    \/ \E id \in Listed(pending), raced \in BOOLEAN : LoopProcess(id, raced)
    \/ Housekeeping
    \/ HousekeepingRace

SpecDispatch == InitDispatch /\ [][NextDispatch]_vars

\* Connect, the goroutines and Disconnect
NextLifecycle ==
    \/ SendDispatchMessage
    \/ Connect
    \/ DisconnectEnter
    \/ DisconnectSendStop
    \/ DisconnectWait
    \/ DisconnectClose
    \/ WatchChildren
    \/ WatchSessionClosed
    \/ LoopStart
    \/ LoopReceive
    \/ LoopError
    \/ LoopStop
    \/ \E id \in Listed(pending) : LoopSkip(id)
    \/ \E id \in Listed(pending) : LoopProcessHang(id)
    \/ \E id \in Listed(pending), raced \in BOOLEAN : LoopProcess(id, raced)

SpecLifecycle == InitLifecycle /\ [][NextLifecycle]_vars


(***************************************************************************)
(* Properties of processMessage.  run is the last call of processMessage:  *)
(* its message, the events of the call in order and how it ended.          *)
(***************************************************************************)
HandlerEvents == {"preHandle", "stateModel", "postHandle"}

Occurrences(events, e) == {i \in 1..Len(events) : events[i] = e}

HandlerInvoked(events) == \E i \in 1..Len(events) : events[i] \in HandlerEvents

RunMessage == run.msg[1]

\* C1: a call of processMessage in session S invokes a handler (preHandle,
\* the state-model handler, postHandle) only for a message whose
\* TGT_SESSION_ID is S or "*"; for any other TGT_SESSION_ID it deletes the
\* message znode and invokes no handler.
C1_SessionGate ==
    run.msg # <<>> =>
        /\ HandlerInvoked(run.events) =>
              RunMessage.TGT_SESSION_ID \in {SessionID, Wildcard}
        /\ RunMessage.TGT_SESSION_ID \notin {SessionID, Wildcard} =>
              /\ run.events = <<"delete">>
              /\ run.id \notin DOMAIN msgs

\* a message of an expired session was deleted unhandled, after a message of
\* the current session had gone through the handlers
C1_Witness ==
    /\ run.msg # <<>>
    /\ RunMessage.TGT_SESSION_ID = OldSessionID
    /\ RunMessage.MSG_TYPE = "STATE_TRANSITION"
    /\ run.events = <<"delete">>
    /\ run.id \notin DOMAIN msgs
    /\ \E k \in PartitionKeys : handled[k] # <<>>

ToStatesOf(hs) == [i \in 1..Len(hs) |-> hs[i].TO_STATE]

IsStateTransition(h) == h.MSG_TYPE = "STATE_TRANSITION"

\* C2: for every partition p of a resource, the values written to
\* mapFields[p]["CURRENT_STATE"] during the session are, in order, the
\* TO_STATE values of the STATE_TRANSITION messages for p that were handled
\* to the end (TGT_SESSION_ID the session or "*", MSG_STATE NEW).
C2_WritesAreHandledTransitions ==
    \A k \in PartitionKeys :
        writes[k] = ToStatesOf(SelectSeq(handled[k], IsStateTransition))

\* a STATE_TRANSITION message with MSG_STATE NEW for the current session
NewTransitionForSession(m) ==
    /\ m.MSG_TYPE = "STATE_TRANSITION"
    /\ ToUpper(m.MSG_STATE) = "NEW"
    /\ m.TGT_SESSION_ID = SessionID

\* the participant has a handler registered for the message's transition
HasHandler(m) ==
    /\ m.STATE_MODEL_DEF \in DOMAIN StateModels
    /\ <<m.FROM_STATE, m.TO_STATE>> \in StateModels[m.STATE_MODEL_DEF]

RunPath == currentStateForResource(SessionID, RunMessage.RESOURCE_NAME)

RunMapFields == currentStates[RunPath].data[1].mapFields

Before(events, a, b) ==
    \A i \in Occurrences(events, a), j \in Occurrences(events, b) : i < j

\* C4: for a NEW STATE_TRANSITION message of the current session whose
\* transition has a registered handler, processMessage invokes that handler
\* exactly once, after preHandle and before postHandle writes the current
\* state and before the message is deleted.
C4_HandlerInvokedOnce ==
    (/\ run.msg # <<>>
     /\ run.outcome = "returned"
     /\ NewTransitionForSession(RunMessage)
     /\ HasHandler(RunMessage))
    => /\ Cardinality(Occurrences(run.events, "stateModel")) = 1
       /\ Before(run.events, "preHandle", "stateModel")
       /\ Before(run.events, "stateModel", "setCurrentState")
       /\ Before(run.events, "stateModel", "delete")

\* C5: after processMessage returns for a NEW STATE_TRANSITION message of the
\* current session with TO_STATE other than DROPPED, the current-state record
\* of the resource exists with mapFields[PARTITION_NAME][CURRENT_STATE] =
\* TO_STATE, also when there was no record before, the message znode is gone,
\* and the current state was written before the message was deleted.
C5_CurrentStateUpserted ==
    (/\ run.msg # <<>>
     /\ run.outcome = "returned"
     /\ NewTransitionForSession(RunMessage)
     /\ ToUpper(RunMessage.TO_STATE) # "DROPPED")
    => /\ RunPath \in DOMAIN currentStates
       /\ RunMessage.PARTITION_NAME \in DOMAIN RunMapFields
       /\ RunMapFields[RunMessage.PARTITION_NAME] =
             [q \in {"CURRENT_STATE"} |-> RunMessage.TO_STATE]
       /\ run.id \notin DOMAIN msgs
       /\ Cardinality(Occurrences(run.events, "setCurrentState")) = 1
       /\ Cardinality(Occurrences(run.events, "delete")) = 1
       /\ Before(run.events, "setCurrentState", "delete")

\* the record of the resource was created by the call that wrote SLAVE
C5_Witness ==
    /\ run.msg # <<>>
    /\ run.outcome = "returned"
    /\ NewTransitionForSession(RunMessage)
    /\ RunMessage.TO_STATE = "SLAVE"
    /\ run.events = <<"createCurrentState", "preHandle", "postHandle",
                      "setCurrentState", "delete">>
    /\ RunMapFields[RunMessage.PARTITION_NAME]["CURRENT_STATE"] = "SLAVE"
    /\ run.id \notin DOMAIN msgs

\* C6: after a STATE_TRANSITION message with TO_STATE DROPPED (any letter
\* case) for partition p of the current session is processed, p is not a key
\* of the mapFields of the resource's current-state record, and the message
\* znode is deleted.
C6_DroppedRemovesKey ==
    (/\ run.msg # <<>>
     /\ run.outcome = "returned"
     /\ NewTransitionForSession(RunMessage)
     /\ ToUpper(RunMessage.TO_STATE) = "DROPPED")
    => /\ RunPath \in DOMAIN currentStates =>
             RunMessage.PARTITION_NAME \notin DOMAIN RunMapFields
       /\ run.id \notin DOMAIN msgs

\* the message of a call of processMessage that the checks of lines 293 and
\* 303 end: NO_OP, or for another session than the current one and "*"
NoOpOrStale(m) ==
    \/ m.MSG_TYPE = "NO_OP"
    \/ m.TGT_SESSION_ID \notin {SessionID, Wildcard}

\* C7: processMessage on a NO_OP message, or on one whose TGT_SESSION_ID is
\* neither the session nor "*", deletes the message znode and does nothing
\* else: no handler runs, and every current-state record and every other
\* znode stays as it was.
C7_NoOpOrStaleOnlyDeletes ==
    [][\A id \in Listed(pending), raced \in BOOLEAN :
          (LoopProcess(id, raced) /\ NoOpOrStale(msgs[id])) =>
            /\ msgs' = [k \in (DOMAIN msgs) \ {id} |-> msgs[k]]
            /\ currentStates' = currentStates
            /\ sessionDirs' = sessionDirs
            /\ liveInstance' = liveInstance
            /\ writes' = writes
            /\ ~HandlerInvoked(run'.events)]_vars

\* a NO_OP message for the current session, state NEW, was deleted while a
\* current-state record existed
C7_Witness ==
    /\ run.msg # <<>>
    /\ RunMessage.MSG_TYPE = "NO_OP"
    /\ RunMessage.TGT_SESSION_ID = SessionID
    /\ run.events = <<"delete">>
    /\ run.id \notin DOMAIN msgs
    /\ DOMAIN currentStates # {}

\* C8: processMessage on a message that is not NO_OP, is for the session or
\* "*", and whose MSG_STATE is not NEW in any letter case leaves every znode,
\* the message included, as it was, runs no handler and writes no current
\* state; a MSG_STATE of "new" in any letter case is handled as NEW.
C8_NonNewIgnored ==
    [][\A id \in Listed(pending), raced \in BOOLEAN :
          (LoopProcess(id, raced) /\ ~NoOpOrStale(msgs[id])) =>
            IF ToUpper(msgs[id].MSG_STATE) # "NEW"
            THEN /\ zkVars' = zkVars
                 /\ writes' = writes
                 /\ run'.events = <<>>
            ELSE Occurrences(run'.events, "preHandle") # {}]_vars

\* a READ message was passed over and is still there, after a message with
\* MSG_STATE "new" was handled
C8_Witness ==
    /\ run.msg # <<>>
    /\ RunMessage.MSG_STATE = "READ"
    /\ run.events = <<>>
    /\ run.id \in DOMAIN msgs
    /\ msgs[run.id] = RunMessage
    /\ \E k \in PartitionKeys : handled[k] # <<>>

\* C9: when a STATE_TRANSITION message names a state model that is not
\* registered, or a transition the registered model has no handler for, the
\* message znode is not deleted and is left with MSG_STATE READ, and the
\* partition's CURRENT_STATE is not set to TO_STATE.
C9_NoHandlerKeepsMessage ==
    (/\ run.msg # <<>>
     /\ run.outcome = "returned"
     /\ NewTransitionForSession(RunMessage)
     /\ ~HasHandler(RunMessage))
    => /\ run.id \in DOMAIN msgs
       /\ msgs[run.id].MSG_STATE = "READ"
       /\ Occurrences(run.events, "setCurrentState") = {}

(***************************************************************************)
(* Properties of the dispatch loop.                                        *)
(***************************************************************************)
\* the dispatch goroutine calls processMessage(id)
Invokes(id) ==
    \/ LoopProcess(id, TRUE)
    \/ LoopProcess(id, FALSE)
    \/ LoopProcessHang(id)

\* C3: the dispatch loop calls processMessage(m) only when m has no entry in
\* the seen cache, and records an entry for m when the call returns; an entry
\* is evicted only when older than 10 s, so a call for m comes more than 10 s
\* after the previous call for m, however many snapshots m appears in.
C3_OncePerWindow ==
    [][\A id \in Listed(pending) :
          Invokes(id) =>
            /\ id \notin DOMAIN messageProcessedTime
            /\ id \in DOMAIN lastInvoked => lastInvoked[id] > EvictAfterSeconds
            /\ run'.outcome = "returned" =>
                  /\ id \in DOMAIN messageProcessedTime'
                  /\ messageProcessedTime'[id] = 0]_vars

(***************************************************************************)
(* Properties of Connect and Disconnect.                                   *)
(***************************************************************************)
\* C10: when Disconnect has returned, the dispatch goroutine has exited, in
\* every interleaving of Connect, the start of the goroutine and Disconnect:
\* no dispatch goroutine is in its loop afterwards, and the participant's
\* state is DISCONNECTED and stays so.
C10_DisconnectEndsDispatch ==
    mainPc = "disconnected" =>
        /\ loopPc \notin {"select", "iter", "stopping", "hung"}
        /\ state = PSDisconnected

\* the order of the participant states
Rank(s) == CASE s = PSConnected    -> 0
             [] s = PSStarted      -> 1
             [] s = PSStopped      -> 2
             [] s = PSDisconnected -> 3

\* C11: the participant state only advances along CONNECTED, STARTED,
\* STOPPED, DISCONNECTED: it never moves backwards, STOPPED is entered only
\* from STARTED by the dispatch loop on the stop signal, and DISCONNECTED is
\* entered only by Disconnect.
C11_StateOnlyAdvances ==
    [][state' # state =>
          /\ Rank(state) < Rank(state')
          /\ state' = PSStopped => (state = PSStarted /\ loopPc = "stopping")
          /\ state' = PSDisconnected => mainPc = "close"]_vars

(***************************************************************************)
(* Connect on any cluster: set up or not, the participant joined or not,   *)
(* auto-join allowed or not, current states and the live instance of a     *)
(* previous session left behind or not.                                    *)
(***************************************************************************)
\* the current-state record of resource R under CURRENTSTATES/<session>
LeftBehind(session) ==
    SetRecordForPath(NewCurrentState([DefaultMessage EXCEPT !.TGT_SESSION_ID = session]))

InitConnect ==
    /\ read = NoRead
    /\ state = PSConnected
    /\ connected = FALSE
    /\ mainPc = "new"
    /\ loopPc = "none"
    /\ watchPc = "none"
    /\ snapshot = {}
    /\ eventFired = FALSE
    /\ pending = <<>>
    /\ messageProcessedTime = <<>>
    /\ msgs = <<>>
    /\ sent = 0
    /\ quota = 0
    /\ crashed = FALSE
    /\ run = NoRun
    /\ lastInvoked = <<>>
    /\ writes = [k \in PartitionKeys |-> <<>>]
    /\ handled = [k \in PartitionKeys |-> <<>>]
    /\ \E setup \in BOOLEAN, autoJoin \in AutoJoinValues,
          config \in {<<>>, DisabledParticipantConfig},
          paths \in {{}, InstancePaths} :
          cluster = [setup |-> setup, autoJoin |-> autoJoin,
                     config |-> config, paths |-> paths,
                     trees |-> JoinedCluster.trees]
    /\ \E sessions \in SUBSET {OldSessionID, SessionID} :
          /\ sessions # {} => "CURRENTSTATES" \in cluster.paths
          /\ sessionDirs = [d \in sessions |-> EmptyNode]
          /\ currentStates =
                [k \in sessions \X Resources |-> LeftBehind(k[1])]
    /\ liveNode \in {<<>>, NewLiveInstanceNode(ParticipantID, OldSessionID)}
    /\ liveInstance = (liveNode # <<>>)
    /\ \E registered \in BOOLEAN, callbacks \in 0..MaxCallbacks :
          call = NewCall(registered, callbacks)
    /\ spectator = NewSpectator({}, FALSE)

NextConnect ==
    \/ ConnectValidate
    \/ ConnectCallback
    \/ ConnectOpen
    \/ ConnectIsClusterSetup
    \/ ConnectEnsureParticipantConfig
    \/ ConnectRefused
    \/ ConnectCleanUp
    \/ ConnectLoop
    \/ CreateLiveInstance
    \/ LiveInstanceWait
    \/ LiveInstanceRetry
    \/ ConnectReturn
    \/ PreviousSessionExpires
    \/ WatchChildren
    \/ LoopStart
    \/ LoopReceive

SpecConnect == InitConnect /\ [][NextConnect]_vars

\* C12: whenever Connect has returned nil and the session is alive, the node
\* LIVEINSTANCES/<participantId> exists and its record carries the participant
\* id and the current session id; Connect never returns nil while the node is
\* missing or belongs to another session.
C12_LiveInstanceAfterConnect ==
    (call.result = "nil" /\ connected) =>
        /\ liveInstance
        /\ liveNode = NewLiveInstanceNode(ParticipantID, SessionID)
        /\ liveNode[1].id = ParticipantID
        /\ liveNode[1].session = SessionID

\* Connect returned nil after it had to wait for the previous session's node
C12_Witness ==
    /\ call.result = "nil"
    /\ connected
    /\ call.attempts > 1
    /\ OwnsLiveNode

Cleaned(dirs, cs) ==
    /\ \A d \in DOMAIN dirs : d = SessionID
    /\ \A k \in DOMAIN cs : k[1] = SessionID

\* the current session's child of CURRENTSTATES and the records under it are
\* the same in both states
Untouched(dirs, cs, dirsAfter, csAfter) ==
    /\ SessionID \in DOMAIN dirs =>
          (SessionID \in DOMAIN dirsAfter /\ dirsAfter[SessionID] = dirs[SessionID])
    /\ \A k \in DOMAIN cs :
          k[1] = SessionID => (k \in DOMAIN csAfter /\ csAfter[k] = cs[k])

\* C14: cleanUp deletes every child of CURRENTSTATES not named after the current
\* session, with its subtree, and leaves the current session's child as it
\* was; no such child is left when the event loop is started, when the live
\* instance node is created, or when Connect returns nil.
C14_CleanUpBeforeLoop ==
    [][/\ mainPc = "cleanUp" /\ mainPc' = "loop" =>
            /\ Cleaned(sessionDirs', currentStates')
            /\ Untouched(sessionDirs, currentStates, sessionDirs', currentStates')
       /\ mainPc # "cleanUp" =>
            Untouched(sessionDirs, currentStates, sessionDirs', currentStates')
       /\ loopPc' \notin {loopPc, "dead"} => Cleaned(sessionDirs, currentStates)
       /\ watchPc' \notin {watchPc, "dead"} => Cleaned(sessionDirs, currentStates)
       /\ (liveNode' # liveNode /\ liveNode' # <<>>) =>
            Cleaned(sessionDirs, currentStates)
       /\ call'.result = "nil" => Cleaned(sessionDirs', currentStates')]_vars

\* Connect returned nil and the current session's child is still there
C14_Witness ==
    /\ call.result = "nil"
    /\ DOMAIN sessionDirs = {SessionID}
    /\ DOMAIN currentStates # {}
    /\ OwnsLiveNode
    /\ loopPc # "none"

\* C15: if allowParticipantAutoJoin is "true" and the participant config is
\* absent when Connect ensures it, then (unless a create panics) the config
\* record exists afterwards with HELIX_HOST = host, HELIX_PORT = port and
\* HELIX_ENABLED = "true", and the six instance paths exist; if the participant
\* config exists, no step of Connect creates or modifies any of these nodes.
C15_AutoJoin ==
    [][/\ ( /\ mainPc = "ensureConfig"
            /\ mainPc' # mainPc
            /\ cluster.config = <<>>
            /\ cluster.autoJoin = <<"true">>
            /\ ~crashed' ) =>
            /\ cluster'.config # <<>>
            /\ cluster'.config[1].id = ParticipantID
            /\ cluster'.config[1].HELIX_HOST = Host
            /\ cluster'.config[1].HELIX_PORT = Port
            /\ cluster'.config[1].HELIX_ENABLED = "true"
            /\ InstancePaths \subseteq cluster'.paths
            /\ Cardinality(InstancePaths) = 6
            /\ mainPc' = "cleanUp"
       /\ cluster.config # <<>> => cluster' = cluster]_vars

\* Connect returned nil after the participant joined by itself
C15_Witness ==
    /\ call.result = "nil"
    /\ cluster.autoJoin = <<"true">>
    /\ cluster.config = NewParticipantConfig
    /\ cluster.paths = InstancePaths

\* C16 as stated: if the participant config is absent and
\* allowParticipantAutoJoin is missing or is not "true", ensuring the config
\* creates nothing and Connect goes on to refuse.
C16_RefusedUnlessTrue ==
    [][( /\ mainPc = "ensureConfig"
         /\ mainPc' # mainPc
         /\ cluster.config = <<>>
         /\ cluster.autoJoin # <<"true">> ) =>
            (cluster' = cluster /\ mainPc' = "refused")]_vars

\* C16, amended: if the participant config is absent and
\* allowParticipantAutoJoin is missing or is not "true" in any letter case,
\* Connect creates nothing, returns ErrEnsureParticipantConfig and leaves the
\* participant DISCONNECTED with its session closed.
C16_RefusedUnlessTrueAnyCase ==
    [][/\ ( /\ mainPc = "ensureConfig"
            /\ mainPc' # mainPc
            /\ cluster.config = <<>>
            /\ (cluster.autoJoin = <<>> \/ ToLower(cluster.autoJoin[1]) # "true") ) =>
            (cluster' = cluster /\ mainPc' = "refused" /\ ~crashed')
       /\ (mainPc = "refused" /\ mainPc' # mainPc) =>
            /\ call'.result = "ErrEnsureParticipantConfig"
            /\ cluster' = cluster
            /\ state' = PSDisconnected
            /\ ~connected'
            /\ mainPc' = "failed"
       /\ call.result = "ErrEnsureParticipantConfig" =>
            /\ UNCHANGED <<cluster, state, connected, call>>
            /\ cluster.config = <<>>
            /\ state = PSDisconnected
            /\ ~connected]_vars

\* Connect refused a participant that may not join by itself
C16_Witness ==
    /\ call.result = "ErrEnsureParticipantConfig"
    /\ cluster.autoJoin = <<"false">>
    /\ cluster.config = <<>>
    /\ state = PSDisconnected
    /\ ~connected

\* C17: if Connect returned an error, the participant's session has no live
\* instance node, the event loop was not started (the state is not STARTED) and
\* no message was processed; without a registered state model no pre-connect
\* callback has run and no coordinator session was opened.
C17_ErrorLeavesNothingRunning ==
    /\ call.result \notin {"none", "nil"} =>
          /\ call.result \in {"ErrNoStateModel", "ErrClusterNotSetup",
                               "ErrEnsureParticipantConfig"}
          /\ mainPc = "failed"
          /\ ~OwnsLiveNode
          /\ loopPc = "none"
          /\ watchPc = "none"
          /\ state # PSStarted
          /\ run = NoRun
          /\ lastInvoked = <<>>
    /\ call.result = "ErrNoStateModel" =>
          /\ call.ran = 0
          /\ ~connected
          /\ state = PSConnected

\* Connect failed on a cluster that is not set up, after its callback ran
C17_Witness ==
    /\ call.result = "ErrClusterNotSetup"
    /\ call.ran > 0
    /\ connected
    /\ loopPc = "none"

\* C18: once Disconnect has returned, every further call of Disconnect returns
\* at once: it sends no stop signal, closes neither the stop channel nor the
\* session again, and so leaves the state one call left.
C18_DisconnectIdempotent ==
    [][mainPc = "disconnected" => mainPc' \in {"disconnected", "dead"}]_vars

\* C19: when Disconnect returns on a participant that was connected, the session
\* is closed and its ephemeral live-instance node is gone; from then on the
\* session stays closed and the participant does not create the node again.
C19_DisconnectRemovesLiveInstance ==
    [][/\ (mainPc = "close" /\ mainPc' = "disconnected") =>
            (~connected' /\ ~OwnsLiveNode' /\ ~liveInstance')
       /\ (mainPc # "new" /\ ~connected) =>
            (~connected' /\ ~OwnsLiveNode' /\ ~liveInstance')]_vars

\* Disconnect returned after it stopped the event loop and closed the session
C19_Witness ==
    /\ mainPc = "disconnected"
    /\ state = PSDisconnected
    /\ loopPc = "exited"
    /\ ~connected
    /\ liveNode = <<>>

(***************************************************************************)
(* A spectator connects, with listeners added before Connect, to a cluster *)
(* in which nothing changes; the Go scheduler runs every goroutine that    *)
(* can take a step.                                                        *)
(***************************************************************************)
\* the listeners added before Connect: none, of one category, or of all
ListenerSets == {{}} \cup {{c} : c \in Categories} \cup {Categories}

InitSpectator ==
    /\ read = NoRead
    /\ state = PSConnected
    /\ connected = FALSE
    /\ liveInstance = FALSE
    /\ mainPc = "new"
    /\ loopPc = "none"
    /\ watchPc = "none"
    /\ snapshot = {}
    /\ eventFired = FALSE
    /\ pending = <<>>
    /\ messageProcessedTime = <<>>
    /\ msgs = <<>>
    /\ sent = 0
    /\ quota = 0
    /\ crashed = FALSE
    /\ run = NoRun
    /\ lastInvoked = <<>>
    /\ writes = [k \in PartitionKeys |-> <<>>]
    /\ handled = [k \in PartitionKeys |-> <<>>]
    /\ liveNode = <<>>
    /\ call = NewCall(TRUE, 0)
    /\ \E setup \in BOOLEAN, views \in {{}, {"R1"}} :
          cluster = [JoinedCluster EXCEPT
                       !.setup = setup,
                       !.trees["externalView"] = [k \in views |-> 0]]
    /\ \E sessions \in SUBSET {SessionID} :
       \E recorded \in SUBSET sessions :
          /\ sessionDirs = [d \in sessions |-> EmptyNode]
          /\ currentStates =
                [k \in recorded \X Resources |-> LeftBehind(k[1])]
    /\ \E listeners \in ListenerSets, buffered \in BOOLEAN :
          spectator = NewSpectator(listeners, buffered)

NextSpectator ==
    \/ SpectatorConnect
    \/ SpectatorLoop
    \/ SpectatorReturn
    \/ \E c \in Categories : Watch(c)
    \/ \E c \in Tracked : WatchRoot(c, FALSE)
    \/ \E c \in Tracked, k \in Names : WatchData(c, k)
    \/ SendInstanceMessage
    \/ \E c \in Categories : Notify(c)
    \/ Handle
    \/ \E c \in Categories : ListenerRun(c)

SpecSpectator ==
    /\ InitSpectator
    /\ [][NextSpectator]_vars
    /\ WF_vars(SpectatorConnect)
    /\ WF_vars(SpectatorLoop)
    /\ WF_vars(SpectatorReturn)
    /\ WF_vars(SendInstanceMessage)
    /\ WF_vars(Handle)
    /\ \A c \in Categories :
          WF_vars(Watch(c)) /\ WF_vars(Notify(c)) /\ WF_vars(ListenerRun(c))
    /\ \A c \in Tracked : WF_vars(WatchRoot(c, FALSE))
    /\ \A c \in Tracked, k \in Names : WF_vars(WatchData(c, k))

InitWatch ==
    /\ read = NoRead
    /\ state = PSConnected
    /\ connected = FALSE
    /\ liveInstance = FALSE
    /\ mainPc = "new"
    /\ loopPc = "none"
    /\ watchPc = "none"
    /\ snapshot = {}
    /\ eventFired = FALSE
    /\ pending = <<>>
    /\ messageProcessedTime = <<>>
    /\ msgs = <<>>
    /\ sent = 0
    /\ quota = 0
    /\ crashed = FALSE
    /\ run = NoRun
    /\ lastInvoked = <<>>
    /\ writes = [k \in PartitionKeys |-> <<>>]
    /\ handled = [k \in PartitionKeys |-> <<>>]
    /\ liveNode = <<>>
    /\ call = NewCall(TRUE, 0)
    /\ \E listeners \in {{}} \cup {{c} : c \in Categories},
          present \in {{}, {"R1"}},
          sessions \in {{}, {SessionID}, {OldSessionID, SessionID}},
          buffered \in BOOLEAN :
          /\ listeners \cap ClusterCategories = {} => present = {}
          /\ listeners \cap {"currentState"} = {} /\ listeners # {}
                => sessions = {SessionID}
          /\ listeners \cap {"message"} = {} /\ listeners # {} => ~buffered
          /\ cluster = [JoinedCluster EXCEPT
                         !.trees = [c \in ClusterCategories |->
                                      IF c \in listeners
                                      THEN [k \in present |-> 0] ELSE <<>>]]
          /\ sessionDirs = [d \in sessions |-> EmptyNode]
          /\ currentStates =
                [k \in sessions \X Resources |-> LeftBehind(k[1])]
          /\ spectator = NewSpectator(listeners, buffered)

NextWatch ==
    \/ SpectatorConnect
    \/ SpectatorLoop
    \/ SpectatorReturn
    \/ SpectatorDisconnect
    \/ SpectatorStop
    \/ SpectatorDisconnected
    \/ \E c \in Categories : AddListener(c)
    \/ \E c \in Categories : Watch(c)
    \/ \E c \in Tracked, raced \in BOOLEAN : WatchRoot(c, raced)
    \/ \E c \in Categories : Await(c)
    \/ \E c \in Tracked, k \in Names : WatchData(c, k)
    \/ \E c \in Tracked, k \in Names : AwaitData(c, k)
    \/ SendInstanceMessage
    \/ \E c \in Categories : Notify(c)
    \/ \E c \in Tracked, k \in Names : NotifyData(c, k)
    \/ Handle
    \/ \E c \in Categories : ListenerRun(c)
    \/ \E c \in Categories : ListenerBlocks(c)
    \/ \E c \in Categories, k \in Names : AddChild(c, k)
    \/ \E c \in Categories, k \in Names : RemoveChild(c, k)
    \/ \E c \in Categories, k \in Names : TouchChild(c, k)
    \/ MessageArrives
    \/ CurrentStateChanges
    \/ CurrentStatePurged
    \/ PollerTick
    \/ StopWatch

SpecWatch == InitWatch /\ [][NextWatch]_vars


\* the goroutines of the spectator keep running; neither the changes in the
\* coordinator, nor the calls made by the application, nor the outcome of a
\* data race are owed to anybody
SpecWatchFair ==
    /\ SpecWatch
    /\ WF_vars(SpectatorConnect)
    /\ WF_vars(SpectatorLoop)
    /\ WF_vars(SpectatorReturn)
    /\ WF_vars(SendInstanceMessage)
    /\ WF_vars(Handle)
    /\ WF_vars(SpectatorStop)
    /\ WF_vars(SpectatorDisconnected)
    /\ WF_vars(PollerTick)
    /\ WF_vars(StopWatch)
    /\ \A c \in Categories :
          /\ WF_vars(Watch(c))
          /\ WF_vars(Await(c))
          /\ WF_vars(Notify(c))
          /\ WF_vars(ListenerRun(c))
    /\ \A c \in Tracked : WF_vars(WatchRoot(c, FALSE))
    /\ \A c \in Tracked, k \in Names :
          /\ WF_vars(WatchData(c, k))
          /\ WF_vars(AwaitData(c, k))
          /\ WF_vars(NotifyData(c, k))

\* C21: while a spectator with an external-view listener is connected, every
\* resource that is added under EXTERNALVIEW (and stays) is eventually in a
\* snapshot the listener is invoked with.
C21_AdditionNotified ==
    \A k \in Names :
       [](/\ spectator.pc = "connected"
          /\ "externalView" \in spectator.listeners
          /\ k \in DOMAIN cluster.trees["externalView"]
          => <>(\/ k \in spectator.shown["externalView"]
                \/ k \notin DOMAIN cluster.trees["externalView"]
                \/ spectator.pc = "disconnected"))


\* C22: when a watcher of the external view, the ideal states or the instance
\* configs has processed a root snapshot and is about to send its notification,
\* an entry of its tracking map is true iff the child is in the snapshot, the
\* entries of children that are gone are kept (false), and a data watcher has
\* been started exactly for the children that had no entry before.
C22_TrackingAfterSnapshot ==
    [][\A c \in Tracked :
         spectator.watchers[c] = "start" /\ spectator'.watchers[c] = "send" =>
            LET before == spectator.tracking[c]
                after  == spectator'.tracking[c]
                listed == DOMAIN cluster.trees[c]
            IN  /\ DOMAIN after = (DOMAIN before) \cup listed
                /\ \A k \in DOMAIN after : after[k] <=> k \in listed
                /\ \A k \in Names :
                      IF k \in listed \ DOMAIN before
                      THEN /\ spectator.data[<<c, k>>] = "none"
                           /\ spectator'.data[<<c, k>>] = "start"
                      ELSE spectator'.data[<<c, k>>] = spectator.data[<<c, k>>]
      ]_vars

\* a watcher is about to send after a snapshot in which one child is gone and
\* another is new
C22_Witness ==
    \E c \in Tracked, gone \in Names, new \in Names :
       /\ spectator.watchers[c] = "send"
       /\ gone \in DOMAIN spectator.tracking[c]
       /\ ~spectator.tracking[c][gone]
       /\ new \in DOMAIN spectator.tracking[c]
       /\ spectator.tracking[c][new]
       /\ spectator.data[<<c, new>>] = "start"
       /\ spectator.data[<<c, gone>>] # "none"


\* C23: a current-state or message listener added to a CONNECTED spectator as
\* the first of its instance starts the watcher of the instance within the call
\* (if the instance has anything to watch), and the call returns; any other
\* call only appends the listener and starts no watcher.
C23_DynamicRegistration ==
    [][\A c \in {"currentState", "message"} :
         spectator'.count[c] = spectator.count[c] + 1 =>
            IF FirstListener(spectator, c) /\ IsConnected(spectator)
            THEN /\ spectator'.pc = spectator.pc
                 /\ \/ spectator'.watchers[c] = "start"
                    \/ c = "currentState" /\ DOMAIN currentStates = {}
            ELSE /\ spectator'.pc = spectator.pc
                 /\ spectator'.watchers = spectator.watchers
      ]_vars


\* C24: a listener of the spectator never runs on the dispatch goroutine: every
\* invocation is a step of a goroutine that handleChangeNotification started
\* for it and leaves the dispatch goroutine where it is; so with a listener
\* blocked for ever the dispatch goroutine at its select still takes the next
\* notification and the stop signal.
C24_ListenersOffDispatch ==
    [][/\ \A c \in Categories :
            c \in (spectator'.invoked \ spectator.invoked)
                    \cup (spectator'.blocked \ spectator.blocked)
               => /\ c \in spectator.spawned
                  /\ spectator'.dispatch = spectator.dispatch
       /\ spectator.blocked # {} /\ spectator.dispatch.pc = "select" =>
            /\ \A c \in Categories :
                  spectator.watchers[c] = "send" => ENABLED Notify(c)
            /\ spectator.pc = "stopping" => ENABLED SpectatorStop
       /\ spectator.blocked # {} /\ spectator.dispatch.pc = "handling" =>
            ENABLED Handle
      ]_vars

\* one listener call is blocked for ever, and the dispatch goroutine has since
\* handled a later notification and started the listener again
C24_Witness ==
    \E c \in Categories :
       /\ c \in spectator.blocked
       /\ c \in spectator.spawned
       /\ spectator.pushed[c] >= 2
       /\ spectator.dispatch.pc = "select"

\* one listener call is blocked for ever, and the dispatch goroutine has taken
\* the stop signal
C24_WitnessStop ==
    /\ spectator.blocked # {}
    /\ spectator.dispatch.pc = "exited"


\* C25: on a connected spectator with a message listener for the instance,
\* every fire of the child watch on INSTANCES/<id>/MESSAGES is followed by a
\* notification delivered to the dispatch goroutine and an invocation of the
\* message listeners.
C25_MessageWatchNotifies ==
    [](/\ "message" \in spectator.listeners
       /\ "message" \in spectator.fired
       => <>(\/ /\ spectator.pushed["message"] > 0
                /\ "message" \in spectator.invoked
             \/ spectator.pc = "disconnected"))


\* C26: every watcher of the spectator sets its one-shot watch again after each
\* fire: a watcher that has taken the event of its watch goes on to read the
\* path with a new watch (at once, or after the notification it sends for the
\* event).
C26_WatchersRearm ==
    [][\A c \in Categories :
         /\ spectator.watchers[c] = "await"
         /\ c \in spectator.fired
         /\ spectator'.watchers[c] # "await"
         /\ ~spectator'.crashed
         => /\ spectator'.watchers[c] \in {"start", "send"}
            /\ spectator'.watchers[c] = "send" => AfterSend(c) = "start"
      ]_vars


\* C27: once Disconnect has signalled and closed the stop channel of the
\* spectator, every goroutine of the spectator eventually ends: the dispatch
\* goroutine, every root watcher and every data watcher.
C27_TasksTerminate ==
    [](spectator.pc = "disconnected"
       => <>(/\ spectator.dispatch.pc = "exited"
             /\ \A c \in Categories :
                   spectator.watchers[c] \in {"none", "exited"}
             /\ \A w \in Tracked \X Names :
                   spectator.data[w] \in {"none", "exited"}))


\* C28: within one participant the calls of processMessage are steps of the
\* one dispatch goroutine, one at a time: a call is for the first id of the
\* list still to iterate, the list only ever loses its first id, and the next
\* snapshot is received only when the list of the previous one is finished.
C28_SequentialInOrder ==
    [][/\ run' # run =>
            /\ loopPc = "iter"
            /\ pending # <<>>
            /\ run'.id = Head(pending)
            /\ loopPc' \in {"iter", "select", "hung", "dead"}
       /\ pending' # pending /\ ~crashed' =>
            \/ loopPc = "iter" /\ pending # <<>> /\ pending' = Tail(pending)
            \/ loopPc = "select" /\ pending = <<>> /\ watchPc = "send"
      ]_vars

\* of a snapshot that listed message 2 before message 1, message 2 has been
\* processed and message 1 is next
C28_Witness ==
    /\ loopPc = "iter"
    /\ pending = <<1>>
    /\ run.id = 2
    /\ DOMAIN lastInvoked = {2}


\* C29: every current-state write of the participant (the creation of the
\* record of a resource, the update of a partition's CURRENT_STATE, the removal
\* of a partition key) is a step of its dispatch goroutine on a znode under
\* CURRENTSTATES/<its session id>, also for a message whose TGT_SESSION_ID is
\* "*"; no record under another session id or under "*" is created or changed.
C29_WritesUnderOwnSession ==
    [][/\ \A k \in DOMAIN currentStates' :
            (k \notin DOMAIN currentStates \/ currentStates'[k] # currentStates[k])
               => /\ k[1] = SessionID
                  /\ loopPc = "iter"
       /\ \A d \in DOMAIN sessionDirs' :
            (d \notin DOMAIN sessionDirs \/ sessionDirs'[d] # sessionDirs[d])
               => /\ d = SessionID
                  /\ loopPc = "iter"
      ]_vars


(***************************************************************************)
(* A read of the coordinator wrapper, of a path that exists or not, over a *)
(* transport that may fail.                                                *)
(***************************************************************************)
InitRead == Init

NextRead ==
    \/ \E op \in Reads, exists \in BOOLEAN : ReadCall(op, exists)
    \/ \E fault \in BOOLEAN : ReadAttempt(fault)
    \/ ReadBackoff
    \/ PathChanges

SpecRead == InitRead /\ [][NextRead]_vars

\* C30: a read of the wrapper (Exists, Get, GetW, Children, ChildrenW) whose
\* call fails with a logical error (the path does not exist) returns that
\* outcome to its caller at once, without a retry; only a transport error is
\* retried.
C30_LogicalErrorsReturn ==
    [][read.pc = "attempt" /\ read'.pc # "attempt" =>
          /\ read'.last = "noNode" =>
                /\ read'.pc = "returned"
                /\ read'.result = "noNode"
          /\ read'.pc = "backoff" => read'.last = "connectionLoss"
      ]_vars


\* C31: the versioned write of a read-modify-write helper uses the stat version
\* that the helper's own Get of the same path observed, whatever the watcher
\* goroutine reads on the shared connection meanwhile: when postHandleMessage
\* calls UpdateMapField on the record of a resource, the version handed to Set
\* is the version of that record, and the write is not refused.
C31_SetUsesOwnVersion ==
    [][\A id \in Listed(pending), raced \in BOOLEAN :
          /\ LoopProcess(id, raced)
          /\ ~SessionChanged(msgs[id])
          /\ Occurrences(run'.events, "postHandle") # {}
          /\ run'.outcome \in {"returned", "panicked"}
          => LET path == currentStateForResource(SessionID,
                                                 msgs[id].RESOURCE_NAME)
                 node == IF path \in DOMAIN currentStates
                         THEN currentStates[path]
                         ELSE SetRecordForPath(NewCurrentState(msgs[id]))
             IN  /\ StatVersion(node, raced) = node.version
                 /\ run'.outcome = "returned"
      ]_vars


(***************************************************************************)
(* UpdateMapField on a znode that holds a record, or bytes that are no     *)
(* record.                                                                 *)
(***************************************************************************)
InitRecord ==
    /\ read = NoRead
    /\ state = PSConnected
    /\ connected = TRUE
    /\ liveInstance = FALSE
    /\ mainPc = "new"
    /\ loopPc = "none"
    /\ watchPc = "none"
    /\ snapshot = {}
    /\ eventFired = FALSE
    /\ pending = <<>>
    /\ messageProcessedTime = <<>>
    /\ msgs = <<>>
    /\ sessionDirs = (SessionID :> EmptyNode)
    /\ \E node \in {EmptyNode} \cup {RecordNode(mf) : mf \in MapFieldsOf} :
          currentStates = (currentStateForResource(SessionID, "R") :> node)
    /\ sent = 0
    /\ quota = 0
    /\ crashed = FALSE
    /\ run = NoRun
    /\ lastInvoked = <<>>
    /\ writes = [k \in PartitionKeys |-> <<>>]
    /\ handled = [k \in PartitionKeys |-> <<>>]
    /\ cluster = JoinedCluster
    /\ liveNode = <<>>
    /\ call = NewCall(TRUE, 0)
    /\ spectator = NewSpectator({}, FALSE)

NextRecord ==
    \E path \in DOMAIN currentStates, key \in Partitions,
       property \in Properties, value \in PropertyValues :
          UpdateMapFieldCall(path, key, property, value)

SpecRecord == InitRecord /\ [][NextRecord]_vars

\* C32: for a znode that holds a record, UpdateMapField(P, k, q, v) leaves at P
\* the record with mapFields[k][q] = v and with its id, its other fields, every
\* other key of mapFields and every other property of k as they were; if the
\* bytes at P do not decode, the znode is not modified and an error is returned.
C32_UpdateMapFieldOnlyThat ==
    [][\A path \in DOMAIN currentStates, k \in Partitions,
          q \in Properties, v \in PropertyValues :
          UpdateMapFieldCall(path, k, q, v) =>
             LET node  == currentStates[path]
                 after == currentStates'[path]
             IN  IF node.data = <<>>
                 THEN /\ after = node
                      /\ run'.outcome = "error"
                 ELSE LET old == node.data[1]
                          new == after.data[1]
                      IN  /\ run'.outcome = "returned"
                          /\ k \in DOMAIN new.mapFields
                          /\ q \in DOMAIN new.mapFields[k]
                          /\ new.mapFields[k][q] = v
                          /\ \A f \in (DOMAIN old) \ {"mapFields"} :
                                new[f] = old[f]
                          /\ DOMAIN new = DOMAIN old
                          /\ DOMAIN new.mapFields =
                                (DOMAIN old.mapFields) \cup {k}
                          /\ \A k2 \in (DOMAIN old.mapFields) \ {k} :
                                new.mapFields[k2] = old.mapFields[k2]
                          /\ k \in DOMAIN old.mapFields =>
                                /\ DOMAIN new.mapFields[k] =
                                      (DOMAIN old.mapFields[k]) \cup {q}
                                /\ \A q2 \in (DOMAIN old.mapFields[k]) \ {q} :
                                      new.mapFields[k][q2] = old.mapFields[k][q2]
                          /\ k \notin DOMAIN old.mapFields =>
                                DOMAIN new.mapFields[k] = {q}
      ]_vars

\* an update has changed one property of one key of a record that holds
\* another property of that key and another key
C32_Witness ==
    /\ run.outcome = "returned"
    /\ run.events = <<"UpdateMapField", "R_1", "CURRENT_STATE", "SLAVE">>
    /\ \E path \in DOMAIN currentStates :
          /\ currentStates[path].version = 1
          /\ currentStates[path].data[1].mapFields =
                [R_1 |-> [CURRENT_STATE |-> "SLAVE", INFO |-> "OFFLINE"],
                 R_2 |-> [CURRENT_STATE |-> "OFFLINE"]]


(***************************************************************************)
(* IsClusterSetup on a cluster of which some paths of the layout may be    *)
(* missing.                                                                *)
(***************************************************************************)
InitSetup ==
    /\ read = NoRead
    /\ state = PSConnected
    /\ connected = TRUE
    /\ liveInstance = FALSE
    /\ mainPc = "new"
    /\ loopPc = "none"
    /\ watchPc = "none"
    /\ snapshot = {}
    /\ eventFired = FALSE
    /\ pending = <<>>
    /\ messageProcessedTime = <<>>
    /\ msgs = <<>>
    /\ sessionDirs = <<>>
    /\ currentStates = <<>>
    /\ sent = 0
    /\ quota = 0
    /\ crashed = FALSE
    /\ run = NoRun
    /\ lastInvoked = <<>>
    /\ writes = [k \in PartitionKeys |-> <<>>]
    /\ handled = [k \in PartitionKeys |-> <<>>]
    /\ \E present \in Trees :
          cluster = [setup |-> TRUE, layout |-> present]
    /\ liveNode = <<>>
    /\ call = NewCall(TRUE, 0)
    /\ spectator = NewSpectator({}, FALSE)

NextSetup == IsClusterSetupCall

SpecSetup == InitSetup /\ [][NextSetup]_vars

\* C33: IsClusterSetup returns true iff every non-leaf path of the layout of the
\* cluster exists, and leaves the coordinator tree as it was.
C33_IsClusterSetupIffLayout ==
    /\ mainPc = "returned" =>
          (call.result = "true" <=> LayoutPaths \subseteq cluster.layout)
    /\ mainPc = "returned" => call.result \in {"true", "false"}


(***************************************************************************)
(* One task calling Context.Set and one calling Context.Get.               *)
(***************************************************************************)
InitContext ==
    /\ read = NoRead
    /\ state = PSConnected
    /\ connected = TRUE
    /\ liveInstance = FALSE
    /\ mainPc = "new"
    /\ loopPc = "none"
    /\ watchPc = "none"
    /\ snapshot = {}
    /\ eventFired = FALSE
    /\ pending = <<>>
    /\ messageProcessedTime = <<>>
    /\ msgs = <<>>
    /\ sessionDirs = <<>>
    /\ currentStates = <<>>
    /\ sent = 0
    /\ quota = 0
    /\ crashed = FALSE
    /\ run = NoRun
    /\ lastInvoked = <<>>
    /\ writes = [k \in PartitionKeys |-> <<>>]
    /\ handled = [k \in PartitionKeys |-> <<>>]
    /\ cluster = JoinedCluster
    /\ liveNode = <<>>
    /\ call = NewCall(TRUE, 0)
    /\ spectator = NewContext

NextContext ==
    \/ \E k \in ContextKeys, v \in ContextValues : ContextSetLock(k, v)
    \/ ContextSetWrite
    \/ ContextSetWritten
    \/ ContextSetUnlock
    \/ \E k \in ContextKeys : ContextGetRead(k)
    \/ ContextGetReturn

SpecContext == InitContext /\ [][NextContext]_vars

\* C34: no Get reads the map of a Context while a Set is writing it, and the
\* process is not stopped by such a read.
C34_ContextThreadSafe ==
    /\ ~(spectator.set.pc = "writing" /\ spectator.get.pc = "reading")
    /\ ~spectator.crashed


InitIdealState ==
    /\ read = NoRead
    /\ state = PSConnected
    /\ connected = TRUE
    /\ liveInstance = FALSE
    /\ mainPc = "new"
    /\ loopPc = "none"
    /\ watchPc = "none"
    /\ snapshot = {}
    /\ eventFired = FALSE
    /\ pending = <<>>
    /\ messageProcessedTime = <<>>
    /\ msgs = <<>>
    /\ sessionDirs = <<>>
    /\ currentStates = <<>>
    /\ sent = 0
    /\ quota = 0
    /\ crashed = FALSE
    /\ run = NoRun
    /\ lastInvoked = <<>>
    /\ writes = [k \in PartitionKeys |-> <<>>]
    /\ handled = [k \in PartitionKeys |-> <<>>]
    /\ cluster = JoinedCluster
    /\ liveNode = <<>>
    /\ call = [calls |-> 0, setter |-> "none", argument |-> "none",
               is |-> NewIdealState("resource")]
    /\ spectator = NewSpectator({}, FALSE)

NextIdealState ==
    \E s \in Setters : IdealStateCall(s[1], s[2])

SpecIdealState == InitIdealState /\ [][NextIdealState]_vars

\* the value of a string of decimal digits
RECURSIVE DecimalValue(_)
DecimalValue(str) ==
    IF str = <<>> THEN 0
    ELSE 10 * DecimalValue(SubSeq(str, 1, Len(str) - 1))
         + (CHOOSE d \in 0 .. 9 : Digits[d + 1] = str[Len(str)])

\* is a string the decimal string of n: an optional sign, then digits without
\* a leading zero that have the value of n
IsDecimalOf(str, n) ==
    LET digits == IF n < 0 THEN Tail(str) ELSE str
    IN  /\ str # <<>>
        /\ n < 0 => Head(str) = "-"
        /\ digits # <<>>
        /\ \A i \in DOMAIN digits : \E d \in 1 .. 10 : Digits[d] = digits[i]
        /\ Len(digits) > 1 => Head(digits) # "0"
        /\ DecimalValue(digits) = (IF n < 0 THEN -n ELSE n)

\* is a string the upper-cased form of m: as long as m, without lower-case
\* letters, and equal to m where m has none
IsUpperOf(str, m) ==
    /\ DOMAIN str = DOMAIN m
    /\ \A i \in DOMAIN m :
          /\ str[i] # "a"
          /\ m[i] # "a" => str[i] = m[i]
          /\ m[i] = "a" => str[i] = "A"

\* C36: after a setter of an IdealState the simple field of the setter reads
\* back as the decimal string of the integer, the state model as given, or the
\* upper-cased rebalance mode, and the other simple fields are as before.
C36_SettersStoreStrings ==
    [][LET before == call.is.record
           after  == call'.is.record
           field  == FieldOf(call'.setter)
           stored == GetSimpleField(after, field)
           arg    == call'.argument
       IN  /\ field \in DOMAIN after.simpleFields
           /\ call'.setter \in {"SetNumPartitions", "SetReplicas"}
                 => IsDecimalOf(stored, arg)
           /\ call'.setter = "SetStateModelDefRef" => stored = arg
           /\ call'.setter = "SetRebalanceMode" => IsUpperOf(stored, arg)
           /\ \A k \in {"NUM_PARTITIONS", "REPLICAS", "STATE_MODEL_DEF_REF",
                        "REBALANCE_MODE"} \ {field} :
                 /\ k \in DOMAIN after.simpleFields
                       <=> k \in DOMAIN before.simpleFields
                 /\ k \in DOMAIN before.simpleFields
                       => GetSimpleField(after, k) = GetSimpleField(before, k)
           /\ after.id = before.id]_vars

\* a rebalance mode with a lower-case letter was stored over other fields
C36_Witness ==
    /\ call.setter = "SetRebalanceMode"
    /\ \E i \in DOMAIN call.argument : call.argument[i] = "a"
    /\ "NUM_PARTITIONS" \in DOMAIN call.is.record.simpleFields
    /\ GetSimpleField(call.is.record, "NUM_PARTITIONS") = <<"1", "0">>


\* C37: the seen cache is touched by one goroutine at a time: no scan of the
\* housekeeping goroutine meets a lookup or insert of the dispatch goroutine,
\* an entry leaves the cache only when it is older than 10 s, and the entry
\* the dispatch goroutine inserts is in the cache when the insert is done.
C37_SeenCacheOneTask ==
    [][/\ ~HousekeepingRace
       /\ ~crashed' =>
             \A id \in DOMAIN messageProcessedTime :
                id \notin DOMAIN messageProcessedTime'
                   => Evictable(messageProcessedTime[id])
       /\ \A id \in Listed(pending) :
             Invokes(id) /\ run'.outcome = "returned"
                => id \in DOMAIN messageProcessedTime']_vars


\* the children stored under the coordinator path of a category: the controller
\* messages, the messages of the instance, the current states of the session
\* of the instance
Stored(c) ==
    CASE c = "message"      -> DOMAIN msgs
      [] c = "currentState" -> WatchedResources(spectator.watched)
      [] OTHER              -> DOMAIN cluster.trees[c]

\* C38: when the dispatch goroutine handles a notification about the controller
\* messages, the instance messages or the current states, it comes back from
\* the read and the listeners get one record for every znode stored under the
\* path of the category.
C38_ListenersGetStored ==
    [][\A c \in {"controllerMessage", "message", "currentState"} :
          /\ spectator.dispatch.pc = "handling"
          /\ spectator.dispatch.kind = c
          /\ spectator'.dispatch.pc # "handling"
          /\ ~spectator'.crashed
          => /\ spectator'.dispatch.pc = "select"
             /\ spectator'.shown[c] = Stored(c)]_vars


\* C39: Disconnect returns in every state in which it can be called: while it
\* waits to hand over the stop signal there is a dispatch goroutine to take it,
\* and when it has returned the dispatch goroutine has exited and IsConnected
\* is false.
C39_DisconnectReturns ==
    /\ spectator.pc = "stopping" =>
          spectator.dispatch.pc \in {"select", "handling"}
    /\ spectator.pc = "disconnected" =>
          spectator.dispatch.pc = "exited" /\ ~IsConnected(spectator)


\* C40: AddCurrentStateChangeListener on a connected spectator returns and
\* releases the lock of the spectator: between the calls of the application the
\* lock is free, and no call is left waiting for the lock it holds itself.
C40_AddReleasesLock ==
    /\ spectator.lock = "free"
    /\ spectator.pc # "deadlocked"

=============================================================================
